---- MODULE Spec2Model ----
(***************************************************************************)
(* RiadX-OS: the MemoryManager (block allocator and page mapper) and the   *)
(* ProcessManager (process table, execution units, scheduler), modelled    *)
(* from kernel/memory.cpp and kernel/process.cpp.                          *)
(*                                                                         *)
(* SpecMem       : the allocator calls of the MemoryManager.               *)
(* SpecMemLanded : the same, sizes that do not wrap, stores that land.     *)
(* SpecPage      : the page calls next to allocate and deallocate.         *)
(* SpecProc      : the calls of the ProcessManager on caller threads, the  *)
(*                 scheduler tick and the execution units, interleaved.    *)
(***************************************************************************)
EXTENDS Integers, Sequences, FiniteSets, TLC

\* ------------------------------------------------------------------------
\* Bounds of the model (scaled-down sizes, caps on counters)
\* ------------------------------------------------------------------------

\* pool_size: MEMORY_POOL_SIZE is 16 MiB in the source; the model keeps the
\* relation pool_size / (2 * PAGE_SIZE) > page_table.size() of the source
\* (2048 page allocations fit the pool, the table has 1024 slots).
PoolSize == 24576

\* page_table.resize(1024) in the source
PageTableEntries == 2

\* width of size_t in bits (64 in the source)
SIZE_T_BITS == 16

\* cap on the number of MemoryManager calls in one run
MaxMemCalls == 5

\* width of PageTableEntry::physical_address in bits (40 in the source)
PFN_BITS == 10

\* the block lists given to coalesce_free_blocks have at most MaxCuts + 1 blocks
MaxCuts == 3

\* ------------------------------------------------------------------------
\* Program constants
\* ------------------------------------------------------------------------

PAGE_SIZE == 4096

\* next_virtual_address(0x1000000) and the base subtracted in map_page
VIRTUAL_BASE == 16777216

\* "Align size to 8 bytes"
ALLOC_ALIGN == 8

\* physical_addr >> 12, physical_address << 12
PAGE_SHIFT == 12

NULL == 0

SizeTModulus == 2 ^ SIZE_T_BITS

\* ------------------------------------------------------------------------
\* Inputs of the MemoryManager calls
\* ------------------------------------------------------------------------

\* addresses std::malloc(pool_size) can return for the pool: 16-byte aligned,
\* page aligned or (an mmap'ed chunk behind its header) 16 past a page
PoolBases == {2 * PAGE_SIZE, 2 * PAGE_SIZE + 16}

\* sizes passed to allocate / allocate_for_process
AllocSizes == {0, PAGE_SIZE, 2 * PAGE_SIZE, SizeTModulus - 1}

\* the sizes among them that rounding does not wrap around
PlainSizes == {0, PAGE_SIZE, 2 * PAGE_SIZE}

\* <<size, alignment>> passed to allocate_aligned
AlignedArgs == {<<PAGE_SIZE, PAGE_SIZE>>, <<PAGE_SIZE, 0>>, <<PAGE_SIZE, 24>>}

\* further <<size, alignment>> pairs: a small block on a 16-byte boundary,
\* alignment 1
SmallAlignedArgs == {<<24, 16>>, <<PAGE_SIZE, 1>>}

\* process ids passed to allocate_for_process
OwnerIds == {1}

\* process ids passed to deallocate_process_memory
ReleasedIds == {-1, 1}

\* what the stores through, and the load from, the dangling reference `block`
\* of first_fit_allocate do once push_back has reallocated the vector:
\*   landed - the stores reach the element, the load reads its address
\*   lost   - the stores hit the released buffer, the load reads the old value
\*   wild   - the stores hit the released buffer, the load reads garbage
DanglingOutcomes == {"landed", "lost", "wild"}

\* the garbage a load from the released buffer yields (an address outside the
\* pool, not null)
WildPtr == 8

\* ------------------------------------------------------------------------
\* Arithmetic helpers
\* ------------------------------------------------------------------------

Min(S) == CHOOSE x \in S : \A y \in S : x <= y

RECURSIVE BitAnd(_, _)
BitAnd(a, b) ==
    IF a = 0 \/ b = 0 THEN 0
    ELSE (IF a % 2 = 1 /\ b % 2 = 1 THEN 1 ELSE 0) + 2 * BitAnd(a \div 2, b \div 2)

\* an address left as it is
Unmasked(x, m) == x

\* x & ~(m - 1) for m a power of two
MaskDown(x, m) == x - BitAnd(x, m - 1)

\* only alignment 0 is turned away
ZeroAlignment(alignment) == alignment = 0

\* alignment == 0 || (alignment & (alignment - 1)) != 0
BadAlignment(alignment) ==
    alignment = 0 \/ BitAnd(alignment, alignment - 1) # 0

\* size = (size + 7) & ~7 on size_t
AlignSize(size) == MaskDown((size + 7) % SizeTModulus, ALLOC_ALIGN)

\* ------------------------------------------------------------------------
\* State of the MemoryManager
\* ------------------------------------------------------------------------

VARIABLES
    memory_pool,           \* address of the pool
    memory_blocks,         \* std::vector<MemoryBlock>, in vector order
    blocks_capacity,       \* memory_blocks.capacity()
    allocated_blocks,      \* std::map<void*, size_t>
    page_table,            \* std::vector<PageTableEntry>
    next_virtual_address,
    virt_live,             \* pages allocate_virtual_page returned, not yet freed
    virt_freed,            \* pages passed to free_virtual_page after that
    freed_ptrs,            \* pointers whose record deallocate has erased
    mem_last,              \* the last call: its name, arguments and result
    mem_calls,             \* the number of calls made so far
    twin,                  \* a second MemoryManager with a pool at the same address
    memory_mutex,          \* the thread that holds memory_mutex over a step, or none
    kernel                 \* the RiadXOS object: running, and how far initialize() got

mem_vars == <<memory_pool, memory_blocks, blocks_capacity, allocated_blocks,
              page_table, next_virtual_address, virt_live, virt_freed,
              freed_ptrs, mem_last, mem_calls, twin, memory_mutex, kernel>>

\* ------------------------------------------------------------------------
\* State of the ProcessManager
\* ------------------------------------------------------------------------

VARIABLES
    pcbs,              \* the ProcessControlBlock at each address, NoPCB if none
    process_table,     \* std::vector<std::unique_ptr<ProcessControlBlock>>
    pid_map,           \* std::map<int, ProcessControlBlock*>
    next_pid,
    current_process,   \* ProcessControlBlock*, possibly dangling
    scheduler_running,
    process_mutex,     \* the thread that owns the mutex, NoThread if free
    tpc,               \* where each calling thread is
    tloc,              \* its locals: the pid and the call it is in
    sched_pc,          \* where the scheduler tick is inside schedule()
    next_process,      \* the local next_process of schedule()
    proc_ret,          \* what the last call returned (true 1, false or void 0)
    proc_calls,        \* the number of calls the threads have made
    pids_returned,     \* the pids create_process returned, in order
    removed,           \* what was true of each block when it left the table
    params             \* arg1 and arg2 of the syscall_params of the last KILL

proc_vars == <<pcbs, process_table, pid_map, next_pid, current_process,
               scheduler_running, process_mutex, tpc, tloc, sched_pc,
               next_process, proc_ret, proc_calls, pids_returned, removed,
               params>>

vars == <<mem_vars, proc_vars>>

MemoryBlock(address, size, is_free, process_id) ==
    [address |-> address, size |-> size, is_free |-> is_free,
     process_id |-> process_id]

PageTableEntry(physical_address, present) ==
    [physical_address |-> physical_address, present |-> present]

MemCall(op, a1, a2, ret, free_before) ==
    [op |-> op, a1 |-> a1, a2 |-> a2, ret |-> ret, free_before |-> free_before]

\* ------------------------------------------------------------------------
\* Observers
\* ------------------------------------------------------------------------

RECURSIVE SumFree(_)
SumFree(blocks) ==
    IF blocks = <<>> THEN 0
    ELSE (IF Head(blocks).is_free THEN Head(blocks).size ELSE 0)
         + SumFree(Tail(blocks))

get_total_memory == PoolSize

get_free_memory == SumFree(memory_blocks) % SizeTModulus

get_used_memory == (get_total_memory - get_free_memory) % SizeTModulus

\* ------------------------------------------------------------------------
\* first_fit_allocate
\* ------------------------------------------------------------------------

\* the first block, in vector order, with is_free && size >= requested
FirstFitIndex(blocks, size) ==
    LET fits == {i \in 1..Len(blocks) : blocks[i].is_free /\ blocks[i].size >= size}
    IN  IF fits = {} THEN 0 ELSE Min(fits)

\* capacity after a push_back on a full vector
GrowCapacity(cap) == cap + (IF cap > 1 THEN cap ELSE 1)

first_fit_allocate(blocks, cap, size, outcome) ==
    LET i == FirstFitIndex(blocks, size) IN
    IF i = 0 THEN [blocks |-> blocks, cap |-> cap, ptr |-> NULL]
    ELSE
      LET block   == blocks[i]
          split   == block.size > size
          realloc == split /\ Len(blocks) = cap
          pushed  == IF split
                     THEN Append(blocks, MemoryBlock(block.address + size,
                                                     block.size - size, TRUE, -1))
                     ELSE blocks
          newcap  == IF realloc THEN GrowCapacity(cap) ELSE cap
          stored  == [pushed EXCEPT ![i].size = size, ![i].is_free = FALSE]
      IN  IF realloc /\ outcome # "landed"
          THEN [blocks |-> pushed, cap |-> newcap,
                ptr |-> IF outcome = "wild" THEN WildPtr ELSE block.address]
          ELSE [blocks |-> stored, cap |-> newcap, ptr |-> block.address]

\* ------------------------------------------------------------------------
\* coalesce_free_blocks
\* ------------------------------------------------------------------------

RemoveAt(s, i) == SubSeq(s, 1, i - 1) \o SubSeq(s, i + 1, Len(s))

\* the orders std::sort may leave the blocks in: ascending by address, blocks
\* of equal address in any order
RECURSIVE SortedByAddress(_)
SortedByAddress(blocks) ==
    IF blocks = <<>> THEN {<<>>}
    ELSE LET lowest == Min({blocks[i].address : i \in 1..Len(blocks)})
             firsts == {i \in 1..Len(blocks) : blocks[i].address = lowest}
         IN  UNION {{<<blocks[i]>> \o rest : rest \in SortedByAddress(RemoveAt(blocks, i))}
                    : i \in firsts}

\* a merge loop that would step on after a merge
RECURSIVE MergeAdvancing(_, _)
MergeAdvancing(blocks, i) ==
    IF i >= Len(blocks) THEN blocks
    ELSE IF /\ blocks[i].is_free
            /\ blocks[i + 1].is_free
            /\ blocks[i].address + blocks[i].size = blocks[i + 1].address
         THEN MergeAdvancing(RemoveAt([blocks EXCEPT ![i].size =
                                      (blocks[i].size + blocks[i + 1].size) % SizeTModulus],
                                 i + 1), i + 1)
         ELSE MergeAdvancing(blocks, i + 1)

\* the merge loop, from index i (1-based) on
RECURSIVE MergeFrom(_, _)
MergeFrom(blocks, i) ==
    IF i >= Len(blocks) THEN blocks
    ELSE IF /\ blocks[i].is_free
            /\ blocks[i + 1].is_free
            /\ blocks[i].address + blocks[i].size = blocks[i + 1].address
         THEN MergeFrom(RemoveAt([blocks EXCEPT ![i].size =
                                      (blocks[i].size + blocks[i + 1].size) % SizeTModulus],
                                 i + 1), i)
         ELSE MergeFrom(blocks, i + 1)

\* the block lists coalesce_free_blocks may leave
coalesce_free_blocks(blocks) ==
    {MergeFrom(sorted, 1) : sorted \in SortedByAddress(blocks)}

\* ------------------------------------------------------------------------
\* allocate, allocate_aligned, deallocate (on values)
\* ------------------------------------------------------------------------

MapPut(m, k, v) == [x \in DOMAIN m \cup {k} |-> IF x = k THEN v ELSE m[x]]

MapErase(m, k) == [x \in DOMAIN m \ {k} |-> m[x]]

\* the allocator part of the state, as a record
MemState == [blocks |-> memory_blocks, cap |-> blocks_capacity,
             allocated |-> allocated_blocks]

allocate_on(st, size, outcome) ==
    IF size = 0 THEN [st |-> st, ptr |-> NULL]
    ELSE LET asize == AlignSize(size)
             r     == first_fit_allocate(st.blocks, st.cap, asize, outcome)
         IN  [st  |-> [blocks |-> r.blocks, cap |-> r.cap,
                       allocated |-> IF r.ptr # NULL
                                     THEN MapPut(st.allocated, r.ptr, asize)
                                     ELSE st.allocated],
              ptr |-> r.ptr]

allocate_aligned_on(st, size, alignment, outcome) ==
    IF BadAlignment(alignment) THEN [st |-> st, ptr |-> NULL]
    ELSE LET aligned_size == (size + alignment - 1) % SizeTModulus
             r == allocate_on(st, aligned_size, outcome)
         IN  IF r.ptr # NULL
             THEN [st |-> r.st, ptr |-> MaskDown(r.ptr + alignment - 1, alignment)]
             ELSE [st |-> r.st, ptr |-> NULL]

\* the first block, in vector order, whose address is ptr
BlockAt(blocks, ptr) ==
    LET at == {i \in 1..Len(blocks) : blocks[i].address = ptr}
    IN  IF at = {} THEN 0 ELSE Min(at)

\* a deallocate that would coalesce before it looks the pointer up
deallocate_coalescing(st, ptr) ==
    {[blocks |-> b, cap |-> st.cap,
      allocated |-> IF ptr \in DOMAIN st.allocated
                    THEN MapErase(st.allocated, ptr) ELSE st.allocated]
     : b \in coalesce_free_blocks(st.blocks)}

\* the states deallocate may leave (a set: std::sort's order is not fixed)
deallocate_on(st, ptr) ==
    IF ptr = NULL \/ ptr \notin DOMAIN st.allocated THEN {st}
    ELSE LET i     == BlockAt(st.blocks, ptr)
             freed == IF i = 0 THEN st.blocks
                      ELSE [st.blocks EXCEPT ![i].is_free = TRUE, ![i].process_id = -1]
         IN  {[blocks |-> b, cap |-> st.cap, allocated |-> MapErase(st.allocated, ptr)]
              : b \in coalesce_free_blocks(freed)}

\* ------------------------------------------------------------------------
\* Page mapper (on values)
\* ------------------------------------------------------------------------

\* size_t page_index = (virtual_addr - 0x1000000) / PAGE_SIZE, 0-based; an
\* address below the base wraps around to an index beyond every table
PageIndex(virtual_addr) ==
    IF virtual_addr >= VIRTUAL_BASE
    THEN (virtual_addr - VIRTUAL_BASE) \div PAGE_SIZE
    ELSE PageTableEntries + 1 + virtual_addr \div PAGE_SIZE

\* an entry that takes the physical address as it is, not its frame number
map_page_unshifted(pt, virtual_addr, physical_addr) ==
    LET page_index == PageIndex(virtual_addr) IN
    IF page_index < Len(pt)
    THEN [pt |-> [pt EXCEPT ![page_index + 1] =
                     PageTableEntry(physical_addr % (2 ^ PFN_BITS), TRUE)],
          ok |-> TRUE]
    ELSE [pt |-> pt, ok |-> FALSE]

map_page(pt, virtual_addr, physical_addr) ==
    LET page_index == PageIndex(virtual_addr) IN
    IF page_index < Len(pt)
    THEN [pt |-> [pt EXCEPT ![page_index + 1] =
                     PageTableEntry((physical_addr \div (2 ^ PAGE_SHIFT)) % (2 ^ PFN_BITS), TRUE)],
          ok |-> TRUE]
    ELSE [pt |-> pt, ok |-> FALSE]

unmap_page(pt, virtual_addr) ==
    LET page_index == PageIndex(virtual_addr) IN
    IF page_index < Len(pt)
    THEN [pt EXCEPT ![page_index + 1] = PageTableEntry(0, FALSE)]
    ELSE pt

virtual_to_physical(pt, virtual_addr) ==
    LET page_index == PageIndex(virtual_addr) IN
    IF page_index < Len(pt) /\ pt[page_index + 1].present
    THEN pt[page_index + 1].physical_address * (2 ^ PAGE_SHIFT)
         + BitAnd(virtual_addr, PAGE_SIZE - 1)
    ELSE 0

\* ------------------------------------------------------------------------
\* The calls of the MemoryManager
\* ------------------------------------------------------------------------

\* the threads that call the managers
Threads == {"t1", "t2"}

NoThread == "none"

\* a manager that no RiadXOS object owns
NoKernel == [pc |-> "none", running |-> FALSE, started |-> <<>>, up |-> {},
             ret |-> "none"]

NoRecords == [x \in {} |-> 0]

\* the second MemoryManager: its block list, capacity and records, and the
\* number of calls made on it
TwinOf(st, calls) ==
    [blocks |-> st.blocks, cap |-> st.cap, allocated |-> st.allocated,
     calls |-> calls]

\* MemoryManager() and initialize()
MemInit ==
    /\ memory_pool \in PoolBases
    /\ memory_blocks = <<MemoryBlock(memory_pool, PoolSize, TRUE, -1)>>
    /\ blocks_capacity = 1
    /\ allocated_blocks = NoRecords
    /\ page_table = [i \in 1..PageTableEntries |-> PageTableEntry(0, FALSE)]
    /\ next_virtual_address = VIRTUAL_BASE
    /\ virt_live = {}
    /\ virt_freed = {}
    /\ freed_ptrs = {}
    /\ mem_last = MemCall("initialize", 0, 0, 1, 0)
    /\ mem_calls = 0
    /\ twin = TwinOf([blocks |-> memory_blocks, cap |-> blocks_capacity,
                      allocated |-> allocated_blocks], 0)
    /\ memory_mutex = NoThread
    /\ kernel = NoKernel

SetMemState(st) ==
    /\ memory_blocks' = st.blocks
    /\ blocks_capacity' = st.cap
    /\ allocated_blocks' = st.allocated

\* one more call, while the run may go on
Called ==
    /\ mem_calls < MaxMemCalls
    /\ mem_calls' = mem_calls + 1

\* 1 when deallocate(ptr) prints "Attempting to free unallocated pointer"
Reported(ptr) ==
    IF ptr # NULL /\ ptr \notin DOMAIN allocated_blocks THEN 1 ELSE 0

\* the pointers released so far, after deallocate(ptr)
Erased(freed, ptr) ==
    IF ptr # NULL /\ ptr \in DOMAIN allocated_blocks THEN freed \cup {ptr} ELSE freed

allocate(size, outcome) ==
    /\ Called
    /\ UNCHANGED proc_vars
    /\ LET r == allocate_on(MemState, size, outcome) IN
         /\ SetMemState(r.st)
         /\ mem_last' = MemCall("allocate", size, 0, r.ptr, 0)
    /\ UNCHANGED <<kernel, memory_mutex, twin, memory_pool, page_table, next_virtual_address, virt_live, virt_freed,
                   freed_ptrs>>

allocate_aligned(size, alignment, outcome) ==
    /\ Called
    /\ UNCHANGED proc_vars
    /\ LET r == allocate_aligned_on(MemState, size, alignment, outcome) IN
         /\ SetMemState(r.st)
         /\ mem_last' = MemCall("allocate_aligned", size, alignment, r.ptr, 0)
    /\ UNCHANGED <<kernel, memory_mutex, twin, memory_pool, page_table, next_virtual_address, virt_live, virt_freed,
                   freed_ptrs>>

deallocate(ptr) ==
    /\ Called
    /\ UNCHANGED proc_vars
    /\ \E st \in deallocate_on(MemState, ptr) : SetMemState(st)
    /\ freed_ptrs' = Erased(freed_ptrs, ptr)
    /\ mem_last' = MemCall("deallocate", ptr, Reported(ptr), NULL, get_free_memory)
    /\ UNCHANGED <<kernel, memory_mutex, twin, memory_pool, page_table, next_virtual_address, virt_live, virt_freed>>

allocate_for_process(process_id, size, outcome) ==
    /\ Called
    /\ UNCHANGED proc_vars
    /\ LET r == allocate_on(MemState, size, outcome)
           i == BlockAt(r.st.blocks, r.ptr)
       IN
         /\ SetMemState(IF r.ptr # NULL /\ i # 0
                        THEN [r.st EXCEPT !.blocks[i].process_id = process_id]
                        ELSE r.st)
         /\ mem_last' = MemCall("allocate_for_process", process_id, size, r.ptr, 0)
    /\ UNCHANGED <<kernel, memory_mutex, twin, memory_pool, page_table, next_virtual_address, virt_live, virt_freed,
                   freed_ptrs>>

deallocate_process_memory(process_id) ==
    /\ Called
    /\ UNCHANGED proc_vars
    /\ LET freed == [i \in 1..Len(memory_blocks) |->
                       IF memory_blocks[i].process_id = process_id
                          /\ ~memory_blocks[i].is_free
                       THEN [memory_blocks[i] EXCEPT !.is_free = TRUE, !.process_id = -1]
                       ELSE memory_blocks[i]]
       IN  \E b \in coalesce_free_blocks(freed) : memory_blocks' = b
    /\ mem_last' = MemCall("deallocate_process_memory", process_id, 0, NULL, 0)
    /\ UNCHANGED <<kernel, memory_mutex, twin, memory_pool, blocks_capacity, allocated_blocks, page_table,
                   next_virtual_address, virt_live, virt_freed, freed_ptrs>>

\* a counter that is left where it was
SameVirtual(v) == v

\* next_virtual_address += PAGE_SIZE
NextVirtual(v) == v + PAGE_SIZE

allocate_virtual_page(outcome) ==
    /\ Called
    /\ UNCHANGED proc_vars
    /\ LET r == allocate_aligned_on(MemState, PAGE_SIZE, PAGE_SIZE, outcome) IN
         /\ SetMemState(r.st)
         /\ IF r.ptr # NULL
            THEN /\ next_virtual_address' = NextVirtual(next_virtual_address)
                 /\ page_table' = map_page(page_table, next_virtual_address, r.ptr).pt
                 /\ virt_live' = virt_live \cup {next_virtual_address}
                 /\ mem_last' = MemCall("allocate_virtual_page", 0, 0,
                                        next_virtual_address, get_free_memory)
            ELSE /\ UNCHANGED <<next_virtual_address, page_table, virt_live>>
                 /\ mem_last' = MemCall("allocate_virtual_page", 0, 0, NULL,
                                        get_free_memory)
    /\ UNCHANGED <<kernel, memory_mutex, twin, memory_pool, virt_freed, freed_ptrs>>

free_virtual_page(page) ==
    /\ Called
    /\ UNCHANGED proc_vars
    /\ LET physical_addr == virtual_to_physical(page_table, page) IN
         IF physical_addr # 0
         THEN /\ page_table' = unmap_page(page_table, page)
              /\ \E st \in deallocate_on(MemState, physical_addr) : SetMemState(st)
              /\ freed_ptrs' = Erased(freed_ptrs, physical_addr)
         ELSE UNCHANGED <<page_table, memory_blocks, blocks_capacity, allocated_blocks,
                          freed_ptrs>>
    /\ virt_live' = virt_live \ {page}
    /\ virt_freed' = IF page \in virt_live THEN virt_freed \cup {page} ELSE virt_freed
    /\ mem_last' = MemCall("free_virtual_page", page, 0, NULL, 0)
    /\ UNCHANGED <<kernel, memory_mutex, twin, memory_pool, next_virtual_address>>

\* the pointers a caller passes to deallocate: null, a recorded or returned
\* pointer, the address of a block
DeallocatePtrs ==
    {NULL} \cup DOMAIN allocated_blocks
           \cup {memory_blocks[i].address : i \in 1..Len(memory_blocks)}
           \cup (IF mem_last.op \in {"allocate", "allocate_aligned", "allocate_for_process"}
                 THEN {mem_last.ret} ELSE {})

\* the pages a caller passes to free_virtual_page: null, a page handed out
\* (live or freed), the next page not yet handed out
VirtualPages ==
    {NULL} \cup virt_live \cup virt_freed \cup {next_virtual_address}

\* ========================================================================
\* ProcessManager
\* ========================================================================

\* ------------------------------------------------------------------------
\* Bounds and inputs of the ProcessManager
\* ------------------------------------------------------------------------

\* create_process is disabled once next_pid exceeds MaxPid
MaxPid == 3

\* cap on the number of calls the threads make in one run
MaxProcCalls == 4

\* the addresses new ProcessControlBlock() can return; a deleted block's
\* address may be handed out again
Slots == {"a1", "a2"}

NoSlot == "nullptr"

\* priorities passed to set_process_priority
Priorities == {-1, 5}

\* signals passed to send_signal: SIGKILL, SIGCONT, SIGSTOP and SIGTERM
Signals == {9, 18, 19, 15}

\* what locking process_mutex does on the thread that already owns it
RelockOutcomes == {"deadlock", "reenter"}

Pids == 1..MaxPid

\* ------------------------------------------------------------------------
\* Process control blocks
\* ------------------------------------------------------------------------

\* create_pcb; unit is the position of the block's execution unit, joined
\* tells that process_thread has been joined (joinable() is false)
NewPCB(pid) ==
    [pid |-> pid, state |-> "READY", priority |-> 1, cpu_time |-> 0,
     should_terminate |-> FALSE, memory_base |-> FALSE,
     unit |-> "none", joined |-> FALSE]

NoPCB == [NewPCB(0) EXCEPT !.state = "FREED"]

NoLocals == [pid |-> 0, op |-> "none"]

\* ProcessManager() and initialize()
ProcInit ==
    /\ pcbs = [s \in Slots |-> NoPCB]
    /\ process_table = <<>>
    /\ pid_map = [p \in {} |-> NoSlot]
    /\ next_pid = 1
    /\ current_process = NoSlot
    /\ scheduler_running = TRUE
    /\ process_mutex = NoThread
    /\ tpc = [t \in Threads |-> "idle"]
    /\ tloc = [t \in Threads |-> NoLocals]
    /\ sched_pc = "idle"
    /\ next_process = NoSlot
    /\ proc_ret = 1
    /\ proc_calls = 0
    /\ pids_returned = <<>>
    /\ removed = {}
    /\ params = [arg1 |-> 0, arg2 |-> 0]

\* ProcessManager(), before initialize()
ProcConstructed ==
    /\ pcbs = [s \in Slots |-> NoPCB]
    /\ process_table = <<>>
    /\ pid_map = [p \in {} |-> NoSlot]
    /\ next_pid = 1
    /\ current_process = NoSlot
    /\ scheduler_running = FALSE
    /\ process_mutex = NoThread
    /\ tpc = [t \in Threads |-> "idle"]
    /\ tloc = [t \in Threads |-> NoLocals]
    /\ sched_pc = "idle"
    /\ next_process = NoSlot
    /\ proc_ret = 1
    /\ proc_calls = 0
    /\ pids_returned = <<>>
    /\ removed = {}
    /\ params = [arg1 |-> 0, arg2 |-> 0]

\* std::terminate() has not been called
Alive == \A t \in Threads : tpc[t] # "aborted"

\* std::lock_guard<std::mutex> lock(process_mutex) can be entered
mutex_available == process_mutex = NoThread

\* thread t makes one more call and gets the mutex
CanLock(t) ==
    /\ Alive
    /\ tpc[t] = "idle"
    /\ mutex_available
    /\ proc_calls < MaxProcCalls
    /\ proc_calls' = proc_calls + 1

\* a store through a ProcessControlBlock*: it reaches whatever block lives at
\* that address now, and nothing of the model when the address is released
StoreState(blocks, slot, state) ==
    IF slot # NoSlot /\ blocks[slot] # NoPCB
    THEN [blocks EXCEPT ![slot].state = state]
    ELSE blocks

\* ------------------------------------------------------------------------
\* create_process
\* ------------------------------------------------------------------------

\* a create_pcb that would leave next_pid as it found it
SamePid(pid) == pid

\* the value next_pid++ leaves in next_pid
NextPid(pid) == pid + 1

\* lock, and the read of next_pid in create_pcb
create_process_begin(t) ==
    /\ CanLock(t)
    /\ next_pid <= MaxPid
    /\ \E s \in Slots : pcbs[s] = NoPCB
    /\ process_mutex' = t
    /\ tpc' = [tpc EXCEPT ![t] = "create_process"]
    /\ tloc' = [tloc EXCEPT ![t] = [pid |-> next_pid, op |-> "create_process"]]
    /\ UNCHANGED <<mem_vars, removed, params>>
    /\ UNCHANGED <<pcbs, process_table, pid_map, next_pid, current_process,
                   scheduler_running, sched_pc, next_process, proc_ret,
                   pids_returned>>

\* the rest of create_pcb, load_executable (std::malloc succeeds or not), the
\* insertion into pid_map and process_table, the start of the thread
create_process_finish(t, slot, loaded) ==
    /\ Alive
    /\ tpc[t] = "create_process"
    /\ pcbs[slot] = NoPCB
    /\ next_pid' = NextPid(tloc[t].pid)
    /\ IF loaded
       THEN /\ pcbs' = [pcbs EXCEPT ![slot] =
                          [NewPCB(tloc[t].pid) EXCEPT !.memory_base = TRUE,
                                                      !.unit = "start"]]
            /\ pid_map' = MapPut(pid_map, tloc[t].pid, slot)
            /\ process_table' = Append(process_table, slot)
            /\ pids_returned' = Append(pids_returned, tloc[t].pid)
            /\ proc_ret' = tloc[t].pid
       ELSE /\ UNCHANGED <<pcbs, pid_map, process_table, pids_returned>>
            /\ proc_ret' = -1
    /\ process_mutex' = NoThread
    /\ tpc' = [tpc EXCEPT ![t] = "idle"]
    /\ tloc' = [tloc EXCEPT ![t] = NoLocals]
    /\ UNCHANGED <<mem_vars, removed, params>>
    /\ UNCHANGED <<current_process, scheduler_running, sched_pc, next_process,
                   proc_calls>>

\* ------------------------------------------------------------------------
\* terminate_process
\* ------------------------------------------------------------------------

\* from the lookup to the join, as call `op` of thread t
terminate_enter(t, pid, op) ==
    IF pid \notin DOMAIN pid_map
    THEN /\ proc_ret' = 0
         /\ UNCHANGED <<pcbs, process_mutex, tpc, tloc>>
    ELSE /\ pcbs' = [pcbs EXCEPT ![pid_map[pid]].should_terminate = TRUE,
                                 ![pid_map[pid]].state = "TERMINATED"]
         /\ process_mutex' = t
         /\ tpc' = [tpc EXCEPT ![t] = "terminate_process"]
         /\ tloc' = [tloc EXCEPT ![t] = [pid |-> pid, op |-> op]]
         /\ UNCHANGED proc_ret

terminate_process_begin(t, pid) ==
    /\ CanLock(t)
    /\ terminate_enter(t, pid, "terminate_process")
    /\ UNCHANGED <<mem_vars, removed, params>>
    /\ UNCHANGED <<process_table, pid_map, next_pid, current_process,
                   scheduler_running, sched_pc, next_process, pids_returned>>

\* cleanup_process: std::free(pcb->memory_base)
cleanup_process(pcb) == [pcb EXCEPT !.memory_base = FALSE]

\* process_thread->join() has returned
Joined(pcb) == [pcb EXCEPT !.joined = TRUE]

\* what is true of a block at the moment it is destroyed
Removal(pcb) ==
    [pid |-> pcb.pid, stopped |-> pcb.unit = "done", joined |-> pcb.joined,
     released |-> ~pcb.memory_base]

\* a table that would keep the block
KeepSlot(table, slot) == table

RemoveSlot(table, slot) == SelectSeq(table, LAMBDA x : x # slot)

\* the join (skipped when the thread is not joinable), which returns once
\* the execution unit has ended, cleanup_process, the erasure from pid_map
\* and process_table, which deletes the block
terminate_process_join(t) ==
    /\ Alive
    /\ tpc[t] = "terminate_process"
    /\ LET pid  == tloc[t].pid
           slot == pid_map[pid]
       IN  /\ pcbs[slot].joined \/ pcbs[slot].unit = "done"
           /\ removed' = removed \cup {Removal(cleanup_process(Joined(pcbs[slot])))}
           /\ pcbs' = [pcbs EXCEPT ![slot] = NoPCB]
           /\ pid_map' = MapErase(pid_map, pid)
           /\ process_table' = RemoveSlot(process_table, slot)
           /\ proc_ret' = IF tloc[t].op = "sys_kill" THEN 0 ELSE 1
    /\ process_mutex' = NoThread
    /\ tpc' = [tpc EXCEPT ![t] = "idle"]
    /\ tloc' = [tloc EXCEPT ![t] = NoLocals]
    /\ UNCHANGED <<mem_vars, params>>
    /\ UNCHANGED <<next_pid, current_process, scheduler_running, sched_pc,
                   next_process, proc_calls, pids_returned>>

\* ------------------------------------------------------------------------
\* wait_for_process (takes no lock)
\* ------------------------------------------------------------------------

\* what a join() does that races with another join() of the same thread, or
\* that is made on the thread of a deleted block
JoinOutcomes == {"returns", "aborts"}

\* the block whose thread t is joining, NoSlot if t is in no join or the
\* block is deleted
JoinTarget(t) ==
    IF tpc[t] \in {"terminate_process", "wait_for_process"}
    THEN IF tloc[t].pid \in DOMAIN pid_map THEN pid_map[tloc[t].pid] ELSE NoSlot
    ELSE IF tpc[t] = "shutdown_join" THEN process_table[tloc[t].pid]
    ELSE NoSlot

\* the lookup and the joinable() test; false without a join when the pid is
\* unknown or the thread is not joinable
wait_for_process_begin(t, pid) ==
    /\ Alive
    /\ tpc[t] = "idle"
    /\ proc_calls < MaxProcCalls
    /\ proc_calls' = proc_calls + 1
    /\ IF pid \in DOMAIN pid_map /\ ~ pcbs[pid_map[pid]].joined
       THEN /\ tpc' = [tpc EXCEPT ![t] = "wait_for_process"]
            /\ tloc' = [tloc EXCEPT ![t] = [pid |-> pid, op |-> "wait_for_process"]]
            /\ UNCHANGED proc_ret
       ELSE /\ proc_ret' = 0
            /\ UNCHANGED <<tpc, tloc>>
    /\ UNCHANGED <<mem_vars, removed, params>>
    /\ UNCHANGED <<pcbs, process_table, pid_map, next_pid, current_process,
                   scheduler_running, process_mutex, sched_pc, next_process,
                   pids_returned>>

\* the join returns once the execution unit has ended, and true is returned;
\* when the block has been deleted or its thread is being joined or has been
\* joined by another thread in the meantime, the join is undefined
wait_for_process_join(t, outcome) ==
    /\ Alive
    /\ tpc[t] = "wait_for_process"
    /\ LET pid   == tloc[t].pid
           known == pid \in DOMAIN pid_map
           racy  == \/ ~ known
                    \/ pcbs[pid_map[pid]].joined
                    \/ \E u \in Threads \ {t} : JoinTarget(u) = pid_map[pid]
       IN  /\ known => pcbs[pid_map[pid]].unit = "done"
           /\ IF racy /\ outcome = "aborts"
              THEN /\ tpc' = [tpc EXCEPT ![t] = "aborted"]
                   /\ UNCHANGED <<pcbs, tloc, proc_ret>>
              ELSE /\ outcome = "returns"
                   /\ pcbs' = IF known
                              THEN [pcbs EXCEPT ![pid_map[pid]] = Joined(@)]
                              ELSE pcbs
                   /\ tpc' = [tpc EXCEPT ![t] = "idle"]
                   /\ tloc' = [tloc EXCEPT ![t] = NoLocals]
                   /\ proc_ret' = 1
    /\ UNCHANGED <<mem_vars, removed, params>>
    /\ UNCHANGED <<process_table, pid_map, next_pid, current_process,
                   scheduler_running, process_mutex, sched_pc, next_process,
                   proc_calls, pids_returned>>

\* ------------------------------------------------------------------------
\* shutdown
\* ------------------------------------------------------------------------

\* the blocks process_table owns
TableSlots(table) == {table[i] : i \in 1..Len(table)}

\* lock, scheduler_running = false; tloc[t].pid is the position of the loop
\* in process_table
shutdown_begin(t) ==
    /\ CanLock(t)
    /\ process_mutex' = t
    /\ scheduler_running' = FALSE
    /\ tpc' = [tpc EXCEPT ![t] = "shutdown"]
    /\ tloc' = [tloc EXCEPT ![t] = [pid |-> 1, op |-> "shutdown"]]
    /\ UNCHANGED <<mem_vars, removed, params>>
    /\ UNCHANGED <<pcbs, process_table, pid_map, next_pid, current_process,
                   sched_pc, next_process, proc_ret, pids_returned>>

\* one round of the loop up to the join: a block whose state is TERMINATED
\* is passed over, any other gets should_terminate and, when its thread is
\* joinable, the join
shutdown_visit(t) ==
    /\ Alive
    /\ tpc[t] = "shutdown"
    /\ tloc[t].pid <= Len(process_table)
    /\ LET slot == process_table[tloc[t].pid] IN
       IF pcbs[slot].state # "TERMINATED"
       THEN /\ pcbs' = [pcbs EXCEPT ![slot].should_terminate = TRUE]
            /\ IF pcbs[slot].joined
               THEN /\ tloc' = [tloc EXCEPT ![t].pid = @ + 1]
                    /\ UNCHANGED tpc
               ELSE /\ tpc' = [tpc EXCEPT ![t] = "shutdown_join"]
                    /\ UNCHANGED tloc
       ELSE /\ tloc' = [tloc EXCEPT ![t].pid = @ + 1]
            /\ UNCHANGED <<pcbs, tpc>>
    /\ UNCHANGED <<mem_vars, removed, params>>
    /\ UNCHANGED <<process_table, pid_map, next_pid, current_process,
                   scheduler_running, process_mutex, sched_pc, next_process,
                   proc_ret, proc_calls, pids_returned>>

\* the join returns once the execution unit has ended
shutdown_join(t) ==
    /\ Alive
    /\ tpc[t] = "shutdown_join"
    /\ LET slot == process_table[tloc[t].pid] IN
          /\ pcbs[slot].unit = "done"
          /\ pcbs' = [pcbs EXCEPT ![slot] = Joined(@)]
    /\ tpc' = [tpc EXCEPT ![t] = "shutdown"]
    /\ tloc' = [tloc EXCEPT ![t].pid = @ + 1]
    /\ UNCHANGED <<mem_vars, removed, params>>
    /\ UNCHANGED <<process_table, pid_map, next_pid, current_process,
                   scheduler_running, process_mutex, sched_pc, next_process,
                   proc_ret, proc_calls, pids_returned>>

\* process_table.clear() deletes every block, cleanup_process not having
\* been called; the destructor of a block whose thread is still joinable
\* calls std::terminate(); then pid_map.clear(), current_process = nullptr
shutdown_clear(t) ==
    /\ Alive
    /\ tpc[t] = "shutdown"
    /\ tloc[t].pid > Len(process_table)
    /\ LET slots == TableSlots(process_table) IN
       IF \E s \in slots : ~ pcbs[s].joined
       THEN /\ tpc' = [tpc EXCEPT ![t] = "aborted"]
            /\ UNCHANGED <<pcbs, process_table, pid_map, current_process,
                           process_mutex, tloc, proc_ret, removed>>
       ELSE /\ removed' = removed \cup {Removal(pcbs[s]) : s \in slots}
            /\ pcbs' = [s \in Slots |-> IF s \in slots THEN NoPCB ELSE pcbs[s]]
            /\ process_table' = <<>>
            /\ pid_map' = [p \in {} |-> NoSlot]
            /\ current_process' = NoSlot
            /\ process_mutex' = NoThread
            /\ tpc' = [tpc EXCEPT ![t] = "idle"]
            /\ tloc' = [tloc EXCEPT ![t] = NoLocals]
            /\ proc_ret' = 0
    /\ UNCHANGED <<mem_vars, params>>
    /\ UNCHANGED <<next_pid, scheduler_running, sched_pc, next_process,
                   proc_calls, pids_returned>>

\* ------------------------------------------------------------------------
\* SystemCalls::sys_kill
\* ------------------------------------------------------------------------

\* kernel->terminate_process(pid) ? 0 : -1, whatever the signal
sys_kill(t, pid, signal) ==
    /\ CanLock(t)
    /\ params' = [arg1 |-> pid, arg2 |-> signal]
    /\ IF pid \in DOMAIN pid_map
       THEN terminate_enter(t, pid, "sys_kill")
       ELSE /\ proc_ret' = -1
            /\ UNCHANGED <<pcbs, process_mutex, tpc, tloc>>
    /\ UNCHANGED <<mem_vars, removed>>
    /\ UNCHANGED <<process_table, pid_map, next_pid, current_process,
                   scheduler_running, sched_pc, next_process, pids_returned>>

\* ------------------------------------------------------------------------
\* suspend_process, resume_process, set_process_priority
\* ------------------------------------------------------------------------

\* the body of suspend_process
suspend_body(pid) ==
    IF pid \in DOMAIN pid_map
    THEN /\ pcbs' = [pcbs EXCEPT ![pid_map[pid]].state = "BLOCKED"]
         /\ proc_ret' = 1
    ELSE /\ UNCHANGED pcbs
         /\ proc_ret' = 0

\* the body of resume_process
resume_body(pid) ==
    IF pid \in DOMAIN pid_map /\ pcbs[pid_map[pid]].state = "BLOCKED"
    THEN /\ pcbs' = [pcbs EXCEPT ![pid_map[pid]].state = "READY"]
         /\ proc_ret' = 1
    ELSE /\ UNCHANGED pcbs
         /\ proc_ret' = 0

suspend_process(t, pid) ==
    /\ CanLock(t)
    /\ suspend_body(pid)
    /\ UNCHANGED <<mem_vars, removed, params>>
    /\ UNCHANGED <<process_table, pid_map, next_pid, current_process,
                   scheduler_running, process_mutex, tpc, tloc, sched_pc,
                   next_process, pids_returned>>

resume_process(t, pid) ==
    /\ CanLock(t)
    /\ resume_body(pid)
    /\ UNCHANGED <<mem_vars, removed, params>>
    /\ UNCHANGED <<process_table, pid_map, next_pid, current_process,
                   scheduler_running, process_mutex, tpc, tloc, sched_pc,
                   next_process, pids_returned>>

set_process_priority(t, pid, priority) ==
    /\ CanLock(t)
    /\ pcbs' = IF pid \in DOMAIN pid_map
               THEN [pcbs EXCEPT ![pid_map[pid]].priority = priority]
               ELSE pcbs
    /\ proc_ret' = 0
    /\ UNCHANGED <<mem_vars, removed, params>>
    /\ UNCHANGED <<process_table, pid_map, next_pid, current_process,
                   scheduler_running, process_mutex, tpc, tloc, sched_pc,
                   next_process, pids_returned>>

\* ------------------------------------------------------------------------
\* send_signal
\* ------------------------------------------------------------------------

\* send_signal holds process_mutex when it calls terminate_process,
\* suspend_process or resume_process, which lock it again on the same thread:
\* the thread blocks on itself for ever, or the second lock goes through
send_signal(t, pid, signal, relock) ==
    /\ CanLock(t)
    /\ IF pid \notin DOMAIN pid_map
       THEN /\ proc_ret' = 0
            /\ UNCHANGED <<pcbs, process_mutex, tpc, tloc>>
       ELSE IF signal \notin {9, 19, 18}
       THEN /\ proc_ret' = 1
            /\ UNCHANGED <<pcbs, process_mutex, tpc, tloc>>
       ELSE IF relock = "deadlock"
       THEN /\ process_mutex' = t
            /\ tpc' = [tpc EXCEPT ![t] = "deadlocked"]
            /\ tloc' = [tloc EXCEPT ![t] = [pid |-> pid, op |-> "send_signal"]]
            /\ UNCHANGED <<pcbs, proc_ret>>
       ELSE IF signal = 9
       THEN terminate_enter(t, pid, "send_signal")
       ELSE IF signal = 19
       THEN /\ suspend_body(pid)
            /\ UNCHANGED <<process_mutex, tpc, tloc>>
       ELSE /\ resume_body(pid)
            /\ UNCHANGED <<process_mutex, tpc, tloc>>
    /\ UNCHANGED <<mem_vars, removed, params>>
    /\ UNCHANGED <<process_table, pid_map, next_pid, current_process,
                   scheduler_running, sched_pc, next_process, pids_returned>>

\* ------------------------------------------------------------------------
\* schedule: select_next_process, then context_switch (no lock is taken)
\* ------------------------------------------------------------------------

\* the scan of select_next_process from index i on, best so far `best` of
\* priority `highest`
RECURSIVE SelectFrom(_, _, _, _, _)
SelectFrom(blocks, table, i, best, highest) ==
    IF i > Len(table) THEN best
    ELSE IF blocks[table[i]].state = "READY" /\ blocks[table[i]].priority > highest
         THEN SelectFrom(blocks, table, i + 1, table[i], blocks[table[i]].priority)
         ELSE SelectFrom(blocks, table, i + 1, best, highest)

select_next_process(blocks, table) == SelectFrom(blocks, table, 1, NoSlot, -1)

schedule_select ==
    /\ Alive
    /\ sched_pc = "idle"
    /\ LET next == select_next_process(pcbs, process_table) IN
       IF scheduler_running /\ next # NoSlot /\ next # current_process
       THEN /\ sched_pc' = "context_switch"
            /\ next_process' = next
            /\ UNCHANGED proc_ret
       ELSE /\ proc_ret' = 0
            /\ UNCHANGED <<sched_pc, next_process>>
    /\ UNCHANGED <<mem_vars, removed, params>>
    /\ UNCHANGED <<pcbs, process_table, pid_map, next_pid, current_process,
                   scheduler_running, process_mutex, tpc, tloc, proc_calls,
                   pids_returned>>

\* context_switch(current_process, next_process)
schedule_switch ==
    /\ Alive
    /\ sched_pc = "context_switch"
    /\ pcbs' = StoreState(StoreState(pcbs, current_process, "READY"),
                          next_process, "RUNNING")
    /\ current_process' = next_process
    /\ sched_pc' = "idle"
    /\ next_process' = NoSlot
    /\ proc_ret' = 0
    /\ UNCHANGED <<mem_vars, removed, params>>
    /\ UNCHANGED <<process_table, pid_map, next_pid, scheduler_running,
                   process_mutex, tpc, tloc, proc_calls, pids_returned>>

\* ------------------------------------------------------------------------
\* execute_process: the execution unit of the block at `slot`
\* ------------------------------------------------------------------------

unit_frame == <<mem_vars, removed, params, process_table, pid_map, next_pid, current_process,
                scheduler_running, process_mutex, tpc, tloc, sched_pc,
                next_process, proc_ret, proc_calls, pids_returned>>

\* pcb->state = PROCESS_RUNNING
unit_start(slot) ==
    /\ Alive
    /\ pcbs[slot].unit = "start"
    /\ pcbs' = [pcbs EXCEPT ![slot].state = "RUNNING", ![slot].unit = "loop"]
    /\ UNCHANGED unit_frame

\* a loop that would not poll should_terminate and state
unit_loop_unpolled(slot, completed) ==
    /\ Alive
    /\ pcbs[slot].unit = "loop"
    /\ pcbs' = [pcbs EXCEPT ![slot].cpu_time = 1 - @,
                            ![slot].unit = IF completed THEN "exit" ELSE "loop"]
    /\ UNCHANGED unit_frame

\* one test of the loop condition and, when it holds, one round of work,
\* after which the unit breaks out (`completed`) or goes round again;
\* of cpu_time, which only ever grows, the model keeps the parity of the
\* number of rounds
unit_loop(slot, completed) ==
    /\ Alive
    /\ pcbs[slot].unit = "loop"
    /\ IF pcbs[slot].should_terminate \/ pcbs[slot].state = "TERMINATED"
       THEN pcbs' = [pcbs EXCEPT ![slot].unit = "exit"]
       ELSE pcbs' = [pcbs EXCEPT ![slot].cpu_time = 1 - @,
                                 ![slot].unit = IF completed THEN "exit" ELSE "loop"]
    /\ UNCHANGED unit_frame

\* pcb->state = PROCESS_TERMINATED, and the thread ends
unit_exit(slot) ==
    /\ Alive
    /\ pcbs[slot].unit = "exit"
    /\ pcbs' = [pcbs EXCEPT ![slot].state = "TERMINATED", ![slot].unit = "done"]
    /\ UNCHANGED unit_frame

\* ------------------------------------------------------------------------
\* The specifications
\* ------------------------------------------------------------------------

\* MemoryManager(), before initialize()
MemConstructed ==
    /\ memory_pool = NULL
    /\ memory_blocks = <<>>
    /\ blocks_capacity = 0
    /\ allocated_blocks = NoRecords
    /\ page_table = <<>>
    /\ next_virtual_address = VIRTUAL_BASE
    /\ virt_live = {}
    /\ virt_freed = {}
    /\ freed_ptrs = {}
    /\ mem_last = MemCall("MemoryManager", 0, 0, 0, 0)
    /\ mem_calls = 0
    /\ twin = TwinOf([blocks |-> <<>>, cap |-> 0, allocated |-> NoRecords], 0)
    /\ memory_mutex = NoThread

\* the MemoryManager before initialize(): the ProcessManager never calls it
MemUnused ==
    /\ MemConstructed
    /\ kernel = NoKernel

ProcNext ==
    \/ \E t \in Threads : create_process_begin(t)
    \/ \E t \in Threads, slot \in Slots, loaded \in BOOLEAN :
          create_process_finish(t, slot, loaded)
    \/ \E t \in Threads, pid \in Pids : terminate_process_begin(t, pid)
    \/ \E t \in Threads : terminate_process_join(t)
    \/ \E t \in Threads, pid \in Pids : suspend_process(t, pid)
    \/ \E t \in Threads, pid \in Pids : resume_process(t, pid)
    \/ \E t \in Threads, pid \in Pids, priority \in Priorities :
          set_process_priority(t, pid, priority)
    \/ \E t \in Threads, pid \in Pids, signal \in Signals, relock \in RelockOutcomes :
          send_signal(t, pid, signal, relock)
    \/ schedule_select
    \/ schedule_switch
    \/ \E slot \in Slots : unit_start(slot)
    \/ \E slot \in Slots, completed \in BOOLEAN : unit_loop(slot, completed)
    \/ \E slot \in Slots : unit_exit(slot)

ProcSpecInit == ProcInit /\ MemUnused

\* the ProcessManager: calls on the threads, the scheduler tick, the units
SpecProc == ProcSpecInit /\ [][ProcNext]_vars

\* create_process, terminate_process and suspend_process on the threads,
\* the scheduler tick and the execution units
TermNext ==
    \/ \E t \in Threads : create_process_begin(t)
    \/ \E t \in Threads, slot \in Slots, loaded \in BOOLEAN :
          create_process_finish(t, slot, loaded)
    \/ \E t \in Threads, pid \in Pids : terminate_process_begin(t, pid)
    \/ \E t \in Threads : terminate_process_join(t)
    \/ \E t \in Threads, pid \in Pids : suspend_process(t, pid)
    \/ schedule_select
    \/ schedule_switch
    \/ \E slot \in Slots : unit_start(slot)
    \/ \E slot \in Slots, completed \in BOOLEAN : unit_loop(slot, completed)
    \/ \E slot \in Slots : unit_exit(slot)

SpecTerm == ProcSpecInit /\ [][TermNext]_vars

\* every execution unit is a thread of its own and every caller blocked in
\* join() is woken when the unit ends: each of them takes its next step
TermFairness ==
    /\ \A slot \in Slots :
          /\ WF_vars(unit_start(slot))
          /\ WF_vars(\E completed \in BOOLEAN : unit_loop(slot, completed))
          /\ WF_vars(unit_exit(slot))
    /\ \A t \in Threads : WF_vars(terminate_process_join(t))

SpecTermFair == ProcSpecInit /\ [][TermNext]_vars /\ TermFairness

\* the life of the processes: create_process, terminate_process,
\* wait_for_process, the KILL system call and shutdown on the threads, and
\* the execution units
LifeNext ==
    \/ \E t \in Threads : create_process_begin(t)
    \/ \E t \in Threads, slot \in Slots, loaded \in BOOLEAN :
          create_process_finish(t, slot, loaded)
    \/ \E t \in Threads, pid \in Pids : terminate_process_begin(t, pid)
    \/ \E t \in Threads : terminate_process_join(t)
    \/ \E t \in Threads, pid \in Pids : wait_for_process_begin(t, pid)
    \/ \E t \in Threads, outcome \in JoinOutcomes : wait_for_process_join(t, outcome)
    \/ \E t \in Threads, pid \in Pids, signal \in Signals : sys_kill(t, pid, signal)
    \/ \E t \in Threads : shutdown_begin(t)
    \/ \E t \in Threads : shutdown_visit(t)
    \/ \E t \in Threads : shutdown_join(t)
    \/ \E t \in Threads : shutdown_clear(t)
    \/ \E slot \in Slots : unit_start(slot)
    \/ \E slot \in Slots, completed \in BOOLEAN : unit_loop(slot, completed)
    \/ \E slot \in Slots : unit_exit(slot)

SpecLife == ProcSpecInit /\ [][LifeNext]_vars

\* the calls of the allocator, allocate called with one of `sizes`, the
\* dangling reference behaving as one of `outcomes`
MemCalls(sizes, outcomes) ==
    \/ \E size \in sizes, o \in outcomes : allocate(size, o)
    \/ \E a \in AlignedArgs, o \in outcomes : allocate_aligned(a[1], a[2], o)
    \/ \E ptr \in DeallocatePtrs : deallocate(ptr)
    \/ \E p \in OwnerIds, o \in outcomes : allocate_for_process(p, PAGE_SIZE, o)
    \/ \E p \in ReleasedIds : deallocate_process_memory(p)

MemNext == MemCalls(AllocSizes, DanglingOutcomes)

\* the allocator's calls
MemSpecInit == MemInit /\ ProcInit

SpecMem == MemSpecInit /\ [][MemNext]_vars

\* both managers after the kernel has initialized them: the calls of SpecTerm next to an
\* initialized MemoryManager
SpecKernel == MemSpecInit /\ [][TermNext]_vars

\* ------------------------------------------------------------------------
\* RiadXOS::initialize, shutdown and the memory calls of the facade
\* ------------------------------------------------------------------------

\* the components in the order in which initialize() reaches them
Components ==
    <<"memory_manager", "process_manager", "display_driver", "keyboard_driver",
      "mouse_driver", "filesystem", "gui_manager">>

\* what bringing up one component does: its initialize() returns true or
\* false, or an exception (std::bad_alloc of make_unique) reaches the catch
\* block of RiadXOS::initialize and the component does not count as started
InitOutcomes == {"true", "false", "throws"}

\* RiadXOS()
KernelConstructed ==
    [pc |-> "constructed", running |-> FALSE, started |-> <<>>, up |-> {},
     ret |-> "none"]

\* the component initialize() brings up next
NextComponent == Components[Len(kernel.started) + 1]

\* a startup that goes on whatever a component reports
initialize_step_ignoring(k, component, outcome) ==
    LET began == IF outcome = "throws" THEN k.started
                 ELSE Append(k.started, component)
        up    == IF outcome = "true" THEN k.up \cup {component} ELSE k.up
    IN  IF component = "gui_manager" \/ outcome = "throws"
        THEN [k EXCEPT !.started = began, !.up = up, !.pc = "returned",
                       !.running = (outcome = "true"),
                       !.ret = IF outcome = "true" THEN "true" ELSE "false"]
        ELSE [k EXCEPT !.started = began, !.up = up]

\* one component of initialize(): `return false` when its initialize() does,
\* and from the catch block; running = true and `return true` after the last
initialize_step(k, component, outcome) ==
    LET began == IF outcome = "throws" THEN k.started
                 ELSE Append(k.started, component)
    IN  IF outcome = "true"
        THEN IF component = "gui_manager"
             THEN [k EXCEPT !.started = began, !.up = @ \cup {component},
                            !.running = TRUE, !.ret = "true", !.pc = "returned"]
             ELSE [k EXCEPT !.started = began, !.up = @ \cup {component}]
        ELSE [k EXCEPT !.started = began, !.ret = "false", !.pc = "returned"]

\* initialize() is entered
kernel_initialize_begin ==
    /\ kernel.pc = "constructed"
    /\ kernel' = [kernel EXCEPT !.pc = "initialize"]
    /\ UNCHANGED <<memory_mutex, twin, memory_pool, memory_blocks, blocks_capacity,
                   allocated_blocks, page_table, next_virtual_address, virt_live,
                   virt_freed, freed_ptrs, mem_last, mem_calls>>
    /\ UNCHANGED proc_vars

\* memory_manager = make_unique<MemoryManager>(); memory_manager->initialize():
\* false when std::malloc returns null
kernel_initialize_memory(outcome, base) ==
    /\ kernel.pc = "initialize"
    /\ NextComponent = "memory_manager"
    /\ kernel' = initialize_step(kernel, "memory_manager", outcome)
    /\ IF outcome = "true"
       THEN /\ memory_pool' = base
            /\ memory_blocks' = <<MemoryBlock(base, PoolSize, TRUE, -1)>>
            /\ blocks_capacity' = 1
            /\ page_table' = [i \in 1..PageTableEntries |-> PageTableEntry(0, FALSE)]
            /\ mem_last' = MemCall("initialize", 0, 0, 1, 0)
            /\ twin' = TwinOf([blocks |-> memory_blocks', cap |-> 1,
                               allocated |-> allocated_blocks], 0)
       ELSE /\ mem_last' = MemCall("initialize", 0, 0, 0, 0)
            /\ UNCHANGED <<memory_pool, memory_blocks, blocks_capacity, page_table,
                           twin>>
    /\ UNCHANGED <<memory_mutex, allocated_blocks, next_virtual_address, virt_live,
                   virt_freed, freed_ptrs, mem_calls>>
    /\ UNCHANGED proc_vars

\* process_manager = make_unique<ProcessManager>(); process_manager->initialize(),
\* which sets scheduler_running and returns true
kernel_initialize_process(outcome) ==
    /\ kernel.pc = "initialize"
    /\ NextComponent = "process_manager"
    /\ kernel' = initialize_step(kernel, "process_manager", outcome)
    /\ scheduler_running' = IF outcome = "true" THEN TRUE ELSE scheduler_running
    /\ UNCHANGED <<memory_mutex, twin, memory_pool, memory_blocks, blocks_capacity,
                   allocated_blocks, page_table, next_virtual_address, virt_live,
                   virt_freed, freed_ptrs, mem_last, mem_calls>>
    /\ UNCHANGED <<pcbs, process_table, pid_map, next_pid, current_process,
                   process_mutex, tpc, tloc, sched_pc, next_process, proc_ret,
                   proc_calls, pids_returned, removed, params>>

\* the drivers and the filesystem, one after the other as the || chain
\* evaluates them, then the GUI manager
kernel_initialize_driver(outcome) ==
    /\ kernel.pc = "initialize"
    /\ NextComponent \notin {"memory_manager", "process_manager"}
    /\ kernel' = initialize_step(kernel, NextComponent, outcome)
    /\ UNCHANGED <<memory_mutex, twin, memory_pool, memory_blocks, blocks_capacity,
                   allocated_blocks, page_table, next_virtual_address, virt_live,
                   virt_freed, freed_ptrs, mem_last, mem_calls>>
    /\ UNCHANGED proc_vars

\* allocate_memory(size): memory_manager->allocate(size) once the pointer is set
kernel_allocate_memory(size) ==
    /\ kernel.pc \in {"returned", "shutdown"}
    /\ Len(kernel.started) >= 1
    /\ allocate(size, "landed")

\* free_memory(ptr): memory_manager->deallocate(ptr) once the pointer is set
kernel_free_memory(ptr) ==
    /\ kernel.pc \in {"returned", "shutdown"}
    /\ Len(kernel.started) >= 1
    /\ deallocate(ptr)

\* shutdown(): nothing unless running; else running = false and the
\* shutdown() of the GUI manager, the process manager (which has no process
\* here and clears scheduler_running) and the filesystem
kernel_shutdown ==
    /\ kernel.pc = "returned"
    /\ kernel' = [kernel EXCEPT !.pc = "shutdown", !.running = FALSE]
    /\ scheduler_running' = IF kernel.running THEN FALSE ELSE scheduler_running
    /\ UNCHANGED <<memory_mutex, twin, memory_pool, memory_blocks, blocks_capacity,
                   allocated_blocks, page_table, next_virtual_address, virt_live,
                   virt_freed, freed_ptrs, mem_last, mem_calls>>
    /\ UNCHANGED <<pcbs, process_table, pid_map, next_pid, current_process,
                   process_mutex, tpc, tloc, sched_pc, next_process, proc_ret,
                   proc_calls, pids_returned, removed, params>>

BootInit == MemConstructed /\ ProcConstructed /\ kernel = KernelConstructed

BootNext ==
    \/ kernel_initialize_begin
    \/ \E outcome \in InitOutcomes, base \in PoolBases :
          kernel_initialize_memory(outcome, base)
    \/ \E outcome \in {"true", "throws"} : kernel_initialize_process(outcome)
    \/ \E outcome \in InitOutcomes : kernel_initialize_driver(outcome)
    \/ \E size \in PlainSizes : kernel_allocate_memory(size)
    \/ \E ptr \in DeallocatePtrs : kernel_free_memory(ptr)
    \/ kernel_shutdown

\* the startup of the kernel, then memory calls through the facade and the
\* shutdown
SpecBoot == BootInit /\ [][BootNext]_vars

MemNextLanded == MemCalls(PlainSizes, {"landed"})

\* the allocator's calls with sizes that do not wrap around, in a build where
\* every store through `block` reaches the vector's element
SpecMemLanded == MemSpecInit /\ [][MemNextLanded]_vars

\* the offsets at which a block list may cut the arena
Cuts == {k * PAGE_SIZE : k \in 1..((PoolSize - 1) \div PAGE_SIZE)}

\* the size of the block that starts at offset `start` when the arena is cut
\* at `cuts`
PieceSize(cuts, start) ==
    Min({c \in cuts \cup {PoolSize} : c > start}) - start

\* the block lists that tile the arena at `base`, cut at `cuts`, in every
\* vector order and with every choice of free and allocated blocks
TilingLists(base, cuts) ==
    LET starts == cuts \cup {0}
        n      == Cardinality(starts)
        orders == {f \in [1..n -> starts] : \A i, j \in 1..n : f[i] = f[j] => i = j}
    IN  {[i \in 1..n |-> MemoryBlock(base + f[i], PieceSize(cuts, f[i]), fr[f[i]],
                                      IF fr[f[i]] THEN -1 ELSE 1)]
         : f \in orders, fr \in [starts -> BOOLEAN]}

\* the records of the allocated blocks of a list
RecordsOf(blocks) ==
    LET used == {i \in 1..Len(blocks) : ~blocks[i].is_free}
    IN  [a \in {blocks[i].address : i \in used} |->
            blocks[CHOOSE i \in used : blocks[i].address = a].size]

\* a MemoryManager whose block list tiles the arena
CoalesceInit ==
    /\ ProcInit
    /\ memory_pool \in PoolBases
    /\ \E cuts \in SUBSET Cuts :
          /\ Cardinality(cuts) <= MaxCuts
          /\ memory_blocks \in TilingLists(memory_pool, cuts)
    /\ blocks_capacity = Len(memory_blocks)
    /\ allocated_blocks = RecordsOf(memory_blocks)
    /\ page_table = [i \in 1..PageTableEntries |-> PageTableEntry(0, FALSE)]
    /\ next_virtual_address = VIRTUAL_BASE
    /\ virt_live = {}
    /\ virt_freed = {}
    /\ freed_ptrs = {}
    /\ mem_last = MemCall("initialize", 0, 0, 1, 0)
    /\ mem_calls = 0
    /\ twin = TwinOf([blocks |-> memory_blocks, cap |-> blocks_capacity,
                      allocated |-> allocated_blocks], 0)
    /\ memory_mutex = NoThread
    /\ kernel = NoKernel

\* one application of coalesce_free_blocks; the call records the length of
\* the list before it and before the application that preceded it
coalesce_call ==
    /\ Called
    /\ UNCHANGED proc_vars
    /\ \E b \in coalesce_free_blocks(memory_blocks) : memory_blocks' = b
    /\ mem_last' = MemCall("coalesce_free_blocks", Len(memory_blocks),
                           IF mem_last.op = "coalesce_free_blocks"
                           THEN mem_last.a1 ELSE 0, NULL, 0)
    /\ UNCHANGED <<kernel, memory_mutex, twin, memory_pool, blocks_capacity, allocated_blocks, page_table,
                   next_virtual_address, virt_live, virt_freed, freed_ptrs>>

\* coalesce_free_blocks applied again and again to a tiling list
SpecCoalesce == CoalesceInit /\ [][coalesce_call]_vars

HeapNext ==
    \/ \E size \in AllocSizes, o \in DanglingOutcomes : allocate(size, o)
    \/ \E ptr \in DeallocatePtrs : deallocate(ptr)

\* sequences of allocate and deallocate calls
SpecHeap == MemSpecInit /\ [][HeapNext]_vars

AlignedNext ==
    \/ \E a \in AlignedArgs \cup SmallAlignedArgs, o \in DanglingOutcomes :
          allocate_aligned(a[1], a[2], o)
    \/ \E ptr \in DeallocatePtrs : deallocate(ptr)

\* sequences of allocate_aligned and deallocate calls
SpecAligned == MemSpecInit /\ [][AlignedNext]_vars

ArgNext ==
    \/ \E size \in PlainSizes, o \in DanglingOutcomes : allocate(size, o)
    \/ \E a \in AlignedArgs, o \in DanglingOutcomes : allocate_aligned(a[1], a[2], o)
    \/ \E o \in DanglingOutcomes : allocate_virtual_page(o)
    \/ \E ptr \in DeallocatePtrs : deallocate(ptr)

\* calls with valid and invalid arguments, next to mapped pages
SpecArgs == MemSpecInit /\ [][ArgNext]_vars

\* a <<size, alignment>> pair whose sum size + alignment - 1 wraps around to 1
WrapAlignedArgs == {<<SizeTModulus - PAGE_SIZE + 2, PAGE_SIZE>>}

AlignedWrapNext ==
    \/ \E a \in AlignedArgs \cup WrapAlignedArgs : allocate_aligned(a[1], a[2], "landed")
    \/ \E ptr \in DeallocatePtrs : deallocate(ptr)

\* allocate_aligned with sizes up to the top of size_t, and deallocate, in a
\* build where every store through `block` reaches the vector's element
SpecAlignedWrap == MemSpecInit /\ [][AlignedWrapNext]_vars

\* sizes of the allocations of the two MemoryManagers
TwinSizes == {PAGE_SIZE, 2 * PAGE_SIZE}

twin_frame == <<kernel, memory_mutex, memory_pool, memory_blocks, blocks_capacity, allocated_blocks,
                page_table, next_virtual_address, virt_live, virt_freed,
                freed_ptrs, mem_last, mem_calls>>

\* allocate(size) on the second MemoryManager
twin_allocate(size) ==
    /\ twin.calls < MaxMemCalls
    /\ twin' = TwinOf(allocate_on(twin, size, "landed").st, twin.calls + 1)
    /\ UNCHANGED <<twin_frame, proc_vars>>

\* deallocate(ptr) on the second MemoryManager
twin_deallocate(ptr) ==
    /\ twin.calls < MaxMemCalls
    /\ \E st \in deallocate_on(twin, ptr) : twin' = TwinOf(st, twin.calls + 1)
    /\ UNCHANGED <<twin_frame, proc_vars>>

TwinNext ==
    \/ \E size \in TwinSizes : allocate(size, "landed")
    \/ \E ptr \in DOMAIN allocated_blocks : deallocate(ptr)
    \/ \E size \in TwinSizes : twin_allocate(size)
    \/ \E ptr \in DOMAIN twin.allocated : twin_deallocate(ptr)

\* two MemoryManagers with pools at the same address, each with its own
\* history of allocate and deallocate calls
SpecTwin == MemSpecInit /\ [][TwinNext]_vars

\* ------------------------------------------------------------------------
\* allocate_virtual_page called on several threads: memory_mutex is held
\* inside allocate only, the counter and the page table are used without it
\* ------------------------------------------------------------------------

\* the locals of a thread inside allocate_virtual_page
PageLocals(page, virtual_addr) ==
    [pid |-> 0, op |-> "allocate_virtual_page", page |-> page,
     virtual_addr |-> virtual_addr]

page_frame == <<pcbs, process_table, pid_map, next_pid, current_process,
                scheduler_running, process_mutex, sched_pc, next_process,
                proc_ret, proc_calls, pids_returned, removed, params>>

\* void* page = allocate_aligned(PAGE_SIZE, PAGE_SIZE), and the return of
\* nullptr when it fails
virtual_page_allocate(t, outcome) ==
    /\ Called
    /\ tpc[t] = "idle"
    /\ LET r == allocate_aligned_on(MemState, PAGE_SIZE, PAGE_SIZE, outcome) IN
         /\ SetMemState(r.st)
         /\ IF r.ptr # NULL
            THEN /\ tpc' = [tpc EXCEPT ![t] = "virtual_page_read"]
                 /\ tloc' = [tloc EXCEPT ![t] = PageLocals(r.ptr, 0)]
                 /\ UNCHANGED mem_last
            ELSE /\ mem_last' = MemCall("allocate_virtual_page", 0, 0, NULL,
                                        get_free_memory)
                 /\ UNCHANGED <<tpc, tloc>>
    /\ UNCHANGED <<kernel, memory_mutex, twin, memory_pool, page_table, next_virtual_address, virt_live,
                   virt_freed, freed_ptrs>>
    /\ UNCHANGED page_frame

\* uint64_t virtual_addr = next_virtual_address
virtual_page_read(t) ==
    /\ tpc[t] = "virtual_page_read"
    /\ tpc' = [tpc EXCEPT ![t] = "virtual_page_add"]
    /\ tloc' = [tloc EXCEPT ![t].virtual_addr = next_virtual_address]
    /\ UNCHANGED mem_vars
    /\ UNCHANGED page_frame

\* next_virtual_address += PAGE_SIZE, an unsynchronised update of a plain
\* uint64_t: it adds to the value in memory, or (reused) to the value the
\* line before loaded
virtual_page_add(t, reused) ==
    /\ tpc[t] = "virtual_page_add"
    /\ next_virtual_address' = NextVirtual(IF reused THEN tloc[t].virtual_addr
                                                     ELSE next_virtual_address)
    /\ tpc' = [tpc EXCEPT ![t] = "virtual_page_map"]
    /\ UNCHANGED <<kernel, memory_mutex, twin, memory_pool, memory_blocks, blocks_capacity, allocated_blocks,
                   page_table, virt_live, virt_freed, freed_ptrs, mem_last,
                   mem_calls>>
    /\ UNCHANGED <<page_frame, tloc>>

\* map_page(virtual_addr, page) and the return of virtual_addr
virtual_page_map(t) ==
    /\ tpc[t] = "virtual_page_map"
    /\ page_table' = map_page(page_table, tloc[t].virtual_addr, tloc[t].page).pt
    /\ virt_live' = virt_live \cup {tloc[t].virtual_addr}
    /\ mem_last' = MemCall("allocate_virtual_page", 0, 0, tloc[t].virtual_addr,
                           get_free_memory)
    /\ tpc' = [tpc EXCEPT ![t] = "idle"]
    /\ tloc' = [tloc EXCEPT ![t] = NoLocals]
    /\ UNCHANGED <<kernel, memory_mutex, twin, memory_pool, memory_blocks, blocks_capacity, allocated_blocks,
                   next_virtual_address, virt_freed, freed_ptrs, mem_calls>>
    /\ UNCHANGED page_frame

PagesNext ==
    \/ \E t \in Threads, o \in DanglingOutcomes : virtual_page_allocate(t, o)
    \/ \E t \in Threads : virtual_page_read(t)
    \/ \E t \in Threads, reused \in BOOLEAN : virtual_page_add(t, reused)
    \/ \E t \in Threads : virtual_page_map(t)

\* allocate_virtual_page called by the threads at the same time
SpecPages == MemSpecInit /\ [][PagesNext]_vars

PageNext ==
    \/ \E o \in DanglingOutcomes : allocate_virtual_page(o)
    \/ \E page \in VirtualPages : free_virtual_page(page)
    \/ \E o \in DanglingOutcomes : allocate(PAGE_SIZE, o)
    \/ \E ptr \in DeallocatePtrs : deallocate(ptr)

\* the page mapper's calls, next to plain allocations of one page
SpecPage == MemSpecInit /\ [][PageNext]_vars

\* the offsets within a page: its first byte, an aligned one, its last byte
PageOffsets == {0, ALLOC_ALIGN, PAGE_SIZE - 1}

\* the virtual addresses handed to the mapper: addresses in every page of
\* the table, the first page beyond the table, null, the byte below the base
MapVirtuals ==
    {VIRTUAL_BASE + k * PAGE_SIZE + off : k \in 0..PageTableEntries, off \in PageOffsets}
        \cup {NULL, VIRTUAL_BASE - 1}

\* the physical addresses handed to map_page: addresses of the pool, page
\* aligned or not
MapPhysicals ==
    {memory_pool, memory_pool + PAGE_SIZE + ALLOC_ALIGN,
     memory_pool + PoolSize - PAGE_SIZE}

\* the rest of the MemoryManager, which the mapper leaves alone
map_frame == <<kernel, memory_mutex, twin, memory_pool, memory_blocks, blocks_capacity, allocated_blocks,
               next_virtual_address, virt_live, virt_freed, freed_ptrs>>

map_page_at(virtual_addr, physical_addr) ==
    /\ Called
    /\ LET r == map_page(page_table, virtual_addr, physical_addr) IN
         /\ page_table' = r.pt
         /\ mem_last' = MemCall("map_page", virtual_addr, physical_addr,
                                IF r.ok THEN 1 ELSE 0, 0)
    /\ UNCHANGED <<map_frame, proc_vars>>

unmap_page_at(virtual_addr) ==
    /\ Called
    /\ page_table' = unmap_page(page_table, virtual_addr)
    /\ mem_last' = MemCall("unmap_page", virtual_addr, 0, NULL, 0)
    /\ UNCHANGED <<map_frame, proc_vars>>

virtual_to_physical_at(virtual_addr) ==
    /\ Called
    /\ mem_last' = MemCall("virtual_to_physical", virtual_addr, 0,
                           virtual_to_physical(page_table, virtual_addr), 0)
    /\ UNCHANGED <<page_table, map_frame, proc_vars>>

MapNext ==
    \/ \E v \in MapVirtuals, p \in MapPhysicals : map_page_at(v, p)
    \/ \E v \in MapVirtuals : unmap_page_at(v)
    \/ \E v \in MapVirtuals : virtual_to_physical_at(v)

\* the three private calls of the page mapper, on the table of the constructor
SpecMap == MemSpecInit /\ [][MapNext]_vars

\* ------------------------------------------------------------------------
\* print_memory_map, next to calls that take memory_mutex on other threads
\* ------------------------------------------------------------------------

\* std::lock_guard<std::mutex> lock(memory_mutex) at the start of
\* print_memory_map
print_memory_map_begin(t) ==
    /\ Called
    /\ tpc[t] = "idle"
    /\ memory_mutex = NoThread
    /\ memory_mutex' = t
    /\ tpc' = [tpc EXCEPT ![t] = "print_memory_map"]
    /\ tloc' = [tloc EXCEPT ![t] = [pid |-> 0, op |-> "print_memory_map"]]
    /\ UNCHANGED <<kernel, twin, memory_pool, memory_blocks, blocks_capacity,
                   allocated_blocks, page_table, next_virtual_address, virt_live,
                   virt_freed, freed_ptrs, mem_last>>
    /\ UNCHANGED page_frame

\* get_used_memory() and get_free_memory() in the output statement: each
\* reaches the lock_guard of get_free_memory on the thread that already owns
\* memory_mutex. The thread blocks on itself for ever, or the lock goes
\* through; then the blocks are printed and the call returns, the mutex
\* having been released
print_memory_map_totals(t, relock) ==
    /\ tpc[t] = "print_memory_map"
    /\ IF relock = "deadlock"
       THEN /\ tpc' = [tpc EXCEPT ![t] = "deadlocked"]
            /\ UNCHANGED <<memory_mutex, mem_last, tloc>>
       ELSE /\ memory_mutex' = NoThread
            /\ mem_last' = MemCall("print_memory_map", get_used_memory, 0, NULL,
                                   get_free_memory)
            /\ tpc' = [tpc EXCEPT ![t] = "idle"]
            /\ tloc' = [tloc EXCEPT ![t] = NoLocals]
    /\ UNCHANGED <<kernel, twin, memory_pool, memory_blocks, blocks_capacity,
                   allocated_blocks, page_table, next_virtual_address, virt_live,
                   virt_freed, freed_ptrs, mem_calls>>
    /\ UNCHANGED page_frame

\* allocate(size) on a thread that gets memory_mutex
locked_allocate(size) ==
    /\ memory_mutex = NoThread
    /\ allocate(size, "landed")

\* deallocate(ptr) on a thread that gets memory_mutex
locked_deallocate(ptr) ==
    /\ memory_mutex = NoThread
    /\ deallocate(ptr)

PrintNext ==
    \/ \E t \in Threads : print_memory_map_begin(t)
    \/ \E t \in Threads, relock \in RelockOutcomes : print_memory_map_totals(t, relock)
    \/ \E size \in PlainSizes : locked_allocate(size)
    \/ \E ptr \in DeallocatePtrs : locked_deallocate(ptr)

\* a thread inside print_memory_map is running and takes its next step
PrintFairness ==
    \A t \in Threads :
        WF_vars(\E relock \in RelockOutcomes : print_memory_map_totals(t, relock))

\* print_memory_map on the threads, between allocate and deallocate calls
SpecPrint == MemSpecInit /\ [][PrintNext]_vars /\ PrintFairness

\* ------------------------------------------------------------------------
\* Claims about the MemoryManager
\* ------------------------------------------------------------------------

RECURSIVE SumSizes(_)
SumSizes(blocks) ==
    IF blocks = <<>> THEN 0 ELSE Head(blocks).size + SumSizes(Tail(blocks))

Overlap(a, b) ==
    /\ a.address < b.address + b.size
    /\ b.address < a.address + a.size

\* C1: in every state reached by allocate, allocate_aligned,
\* allocate_for_process, deallocate and deallocate_process_memory calls the
\* blocks of the block list have size > 0, are pairwise non-overlapping and
\* cover the arena [memory_pool, memory_pool + pool_size) exactly.
C1_BlocksTileArena ==
    /\ \A i \in 1..Len(memory_blocks) :
          /\ memory_blocks[i].size > 0
          /\ memory_blocks[i].address >= memory_pool
          /\ memory_blocks[i].address + memory_blocks[i].size <= memory_pool + PoolSize
    /\ \A i, j \in 1..Len(memory_blocks) :
          i # j => ~Overlap(memory_blocks[i], memory_blocks[j])
    /\ SumSizes(memory_blocks) = PoolSize

\* the base address of the lowest-addressed free block of at least `size`
\* bytes, NULL when there is none
LowestFit(blocks, size) ==
    LET fits == {i \in 1..Len(blocks) : blocks[i].is_free /\ blocks[i].size >= size}
    IN  IF fits = {} THEN NULL ELSE Min({blocks[i].address : i \in fits})

\* C2: allocate(size) with size > 0 returns the base address of the
\* lowest-addressed free block whose size is at least size rounded up to a
\* multiple of 8 (first fit in address order).
C2_FirstFitInAddressOrder ==
    [][(/\ mem_calls' = mem_calls + 1
        /\ mem_last'.op = "allocate"
        /\ mem_last'.a1 > 0)
       => mem_last'.ret = LowestFit(memory_blocks, AlignSize(mem_last'.a1))]_mem_vars

\* C9: virtual_to_physical(p) is nonzero for every page p that
\* allocate_virtual_page returned and free_virtual_page has not been called
\* on, and 0 for every page that was freed.
C9_TranslationRoundTrip ==
    /\ \A p \in virt_live : virtual_to_physical(page_table, p) # 0
    /\ \A p \in virt_freed : virtual_to_physical(page_table, p) = 0

\* C10: free_virtual_page(p) directly after the allocate_virtual_page that
\* returned p clears the page-table entry, leaves the physical page inside
\* free blocks only, and brings get_free_memory() back to its value before
\* the allocate_virtual_page call.
C10_FreePageReleasesBlock ==
    [][(/\ mem_calls' = mem_calls + 1
        /\ mem_last.op = "allocate_virtual_page"
        /\ mem_last.ret # NULL
        /\ mem_last'.op = "free_virtual_page"
        /\ mem_last'.a1 = mem_last.ret
        /\ virtual_to_physical(page_table, mem_last.ret) # 0)
       => LET physical == virtual_to_physical(page_table, mem_last.ret) IN
          /\ virtual_to_physical(page_table', mem_last.ret) = 0
          /\ \A i \in 1..Len(memory_blocks') :
                (/\ memory_blocks'[i].address <= physical
                 /\ physical < memory_blocks'[i].address + memory_blocks'[i].size)
                => memory_blocks'[i].is_free
          /\ SumFree(memory_blocks') % SizeTModulus = mem_last.free_before]_mem_vars

\* ------------------------------------------------------------------------
\* Claims about the ProcessManager
\* ------------------------------------------------------------------------

\* the blocks of the process table that are RUNNING
RunningSlots(blocks, table) ==
    {table[i] : i \in {j \in 1..Len(table) : blocks[table[j]].state = "RUNNING"}}

\* a step on which a schedule() call returns
ScheduleReturns ==
    (schedule_select \/ schedule_switch) /\ sched_pc' = "idle"

\* C3: whenever a schedule() call has just returned, at most one block of
\* the process table has state RUNNING.
C3_OneRunningAfterSchedule ==
    [][ScheduleReturns
       => Cardinality(RunningSlots(pcbs', process_table')) <= 1]_vars

KnownPid(pid) == pid \in DOMAIN pid_map

\* C4: send_signal completes: for an unknown pid it returns false, for a
\* known pid signal 9 runs terminate_process, which returns true with the
\* block removed, signal 19 does and returns what suspend_process does,
\* signal 18 what resume_process does, any other signal returns true and
\* changes nothing.
C4_SignalDispatch ==
    [][/\ \A t \in Threads, pid \in Pids, signal \in Signals,
             relock \in RelockOutcomes :
             send_signal(t, pid, signal, relock)
             => /\ tpc'[t] # "deadlocked"
                /\ ~KnownPid(pid) => (proc_ret' = 0 /\ pcbs' = pcbs)
                /\ (KnownPid(pid) /\ signal = 9) => tpc'[t] = "terminate_process"
                /\ (KnownPid(pid) /\ signal = 19) => suspend_body(pid)
                /\ (KnownPid(pid) /\ signal = 18) => resume_body(pid)
                /\ (KnownPid(pid) /\ signal \notin {9, 18, 19})
                      => (proc_ret' = 1 /\ pcbs' = pcbs)
       /\ \A t \in Threads :
             (terminate_process_join(t) /\ tloc[t].op = "send_signal")
             => (proc_ret' = 1 /\ tloc[t].pid \notin DOMAIN pid_map')]_vars

\* C5: TERMINATED is absorbing: a block whose state is TERMINATED keeps that
\* state for as long as it exists.
C5_TerminatedIsAbsorbing ==
    [][\A slot \in Slots :
          (pcbs[slot].state = "TERMINATED" /\ pcbs'[slot].pid = pcbs[slot].pid)
          => pcbs'[slot].state = "TERMINATED"]_vars

\* the state of the block of pid, "none" for an unknown pid
StateOf(pid) == IF KnownPid(pid) THEN pcbs[pid_map[pid]].state ELSE "none"

\* C6: suspend_process(pid) returns true and sets BLOCKED only for a READY
\* or RUNNING block, resume_process(pid) returns true and sets READY only for
\* a BLOCKED block; every other call returns false and changes no block.
C6_SuspendResumeLegalOnly ==
    [][\A t \in Threads, pid \in Pids :
          /\ suspend_process(t, pid)
             => IF StateOf(pid) \in {"READY", "RUNNING"}
                THEN /\ proc_ret' = 1
                     /\ pcbs' = [pcbs EXCEPT ![pid_map[pid]].state = "BLOCKED"]
                ELSE proc_ret' = 0 /\ pcbs' = pcbs
          /\ resume_process(t, pid)
             => IF StateOf(pid) = "BLOCKED"
                THEN /\ proc_ret' = 1
                     /\ pcbs' = [pcbs EXCEPT ![pid_map[pid]].state = "READY"]
                ELSE proc_ret' = 0 /\ pcbs' = pcbs]_vars

\* C7: every pid create_process returns is greater than every pid it
\* returned before.
C7_PidsStrictlyIncrease ==
    \A i, j \in DOMAIN pids_returned :
        i < j => pids_returned[i] < pids_returned[j]

\* create a, create b, terminate a, create c: pids 1, 2, 3, of which 2 and 3
\* are in the table
C7_ThirdPidAfterTerminate ==
    /\ pids_returned = <<1, 2, 3>>
    /\ DOMAIN pid_map = {2, 3}

\* the READY blocks of the table
ReadySlots == {process_table[i] : i \in {j \in 1..Len(process_table) :
                                            pcbs[process_table[j]].state = "READY"}}

\* the READY block of the highest priority, of the lowest pid among equals
HighestReady ==
    IF ReadySlots = {} THEN NoSlot
    ELSE CHOOSE s \in ReadySlots :
            \A o \in ReadySlots :
                \/ pcbs[s].priority > pcbs[o].priority
                \/ pcbs[s].priority = pcbs[o].priority /\ pcbs[s].pid <= pcbs[o].pid

\* C8: schedule() selects the READY block of the highest priority, the
\* lowest pid among equals, whatever priorities set_process_priority stored;
\* when it is not the current block, the old current block becomes READY and
\* the selected one RUNNING and current.
C8_HighestPriorityReadySelected ==
    [][/\ (schedule_select /\ scheduler_running)
          => IF HighestReady # NoSlot /\ HighestReady # current_process
             THEN sched_pc' = "context_switch" /\ next_process' = HighestReady
             ELSE sched_pc' = "idle"
       /\ schedule_switch
          => /\ current_process' = next_process
             /\ pcbs[next_process] # NoPCB => pcbs'[next_process].state = "RUNNING"
             /\ (current_process # NoSlot /\ pcbs[current_process] # NoPCB)
                   => pcbs'[current_process].state = "READY"]_vars

\* ------------------------------------------------------------------------
\* Further claims about the MemoryManager
\* ------------------------------------------------------------------------

\* C11: after every sequence of allocate and deallocate calls
\* get_used_memory() + get_free_memory() = get_total_memory(), where
\* get_free_memory() is the sum of the sizes of the free blocks and the sizes
\* of all blocks sum to the capacity.
C11_UsedPlusFreeIsTotal ==
    /\ (get_used_memory + get_free_memory) % SizeTModulus = get_total_memory
    /\ get_free_memory = SumFree(memory_blocks)
    /\ SumSizes(memory_blocks) = get_total_memory

C17_AlignedAddress ==
    (mem_last.op = "allocate_aligned" /\ mem_last.ret # NULL)
    => mem_last.ret % mem_last.a2 = 0

\* allocate_aligned has returned an address other than the one allocate
\* gave it
C17_AddressMovedUp ==
    /\ mem_last.op = "allocate_aligned"
    /\ mem_last.ret # NULL
    /\ mem_last.ret \notin DOMAIN allocated_blocks

\* the sum of the recorded (rounded) sizes of the live allocations
RECURSIVE SumRecords(_)
SumRecords(allocated) ==
    IF DOMAIN allocated = {} THEN 0
    ELSE LET ptr == CHOOSE x \in DOMAIN allocated : TRUE
         IN  allocated[ptr] + SumRecords(MapErase(allocated, ptr))

\* C18: at every point of a sequence of allocate and deallocate calls
\* get_free_memory() is the capacity minus the rounded sizes of the live
\* allocations, and once every returned address has been deallocated the
\* block list is one free block of the whole capacity.
C18_FreeAllRestoresArena ==
    /\ get_free_memory = PoolSize - SumRecords(allocated_blocks)
    /\ (mem_last.op = "deallocate" /\ allocated_blocks = NoRecords)
       => memory_blocks = <<MemoryBlock(memory_pool, PoolSize, TRUE, -1)>>

\* C19: coalesce_free_blocks is idempotent: applied to the result of an
\* application it returns that result, the same blocks in the same order.
C19_CoalesceIdempotent ==
    \A once \in coalesce_free_blocks(memory_blocks) :
        coalesce_free_blocks(once) = {once}

\* a second application directly after one that merged blocks
C19_SecondAfterMerge ==
    /\ mem_last.op = "coalesce_free_blocks"
    /\ mem_calls = 2
    /\ mem_last.a2 > mem_last.a1

\* ------------------------------------------------------------------------
\* Further claims about the ProcessManager
\* ------------------------------------------------------------------------

\* the pids whose blocks have been destroyed
RemovedPids == {r.pid : r \in removed}

\* C12: terminate_process(pid) returns false and changes nothing when pid is
\* not in the table, which is the case of a pid terminated before; otherwise
\* it sets the termination flag and state TERMINATED, returns only once the
\* execution unit has stopped, and by then has released the block's memory
\* and removed the block from process_table and pid_map, returning true
C12_TerminateContract ==
    [][\A t \in Threads :
          /\ \A pid \in Pids :
                terminate_process_begin(t, pid) =>
                   IF KnownPid(pid)
                   THEN /\ pcbs'[pid_map[pid]].should_terminate
                        /\ pcbs'[pid_map[pid]].state = "TERMINATED"
                        /\ tpc'[t] = "terminate_process"
                        /\ pid \notin RemovedPids
                   ELSE /\ proc_ret' = 0
                        /\ tpc'[t] = "idle"
                        /\ UNCHANGED <<pcbs, process_table, pid_map, removed>>
          /\ (terminate_process_join(t) /\ tloc[t].op = "terminate_process") =>
                LET pid  == tloc[t].pid
                    slot == pid_map[pid]
                IN  /\ pcbs[slot].unit = "done"
                    /\ [pid |-> pid, stopped |-> TRUE, joined |-> TRUE,
                        released |-> TRUE] \in removed'
                    /\ ~ \E i \in 1..Len(process_table') : process_table'[i] = slot
                    /\ pid \notin DOMAIN pid_map'
                    /\ proc_ret' = 1]_vars

\* terminate_process(1) has returned true and process 1 is gone
C12_TerminatedAndRemoved ==
    /\ \E r \in removed : r.pid = 1 /\ r.stopped /\ r.joined /\ r.released
    /\ ~ KnownPid(1)
    /\ proc_ret = 1
    /\ proc_calls = 2
    /\ \A t \in Threads : tpc[t] = "idle"

\* C13: wait_for_process(pid) returns false only when pid is unknown; for
\* every pid in the table it returns true, and only once the execution unit
\* has stopped, also when the unit had stopped or had been waited for before
C13_WaitFalseOnlyForUnknownPid ==
    [][\A t \in Threads :
          /\ \A pid \in Pids :
                (wait_for_process_begin(t, pid) /\ tpc'[t] = "idle") =>
                   (~ KnownPid(pid) /\ proc_ret' = 0)
          /\ \A outcome \in JoinOutcomes :
                wait_for_process_join(t, outcome) =>
                   (tpc'[t] = "idle" /\ proc_ret' = 1)]_vars

\* the process the last KILL names, as send_signal would leave it
SignalledState(pid, signal) ==
    IF signal = 9 THEN "TERMINATED"
    ELSE IF signal = 19 THEN "BLOCKED"
    ELSE IF signal = 18 /\ StateOf(pid) = "BLOCKED" THEN "READY"
    ELSE StateOf(pid)

\* C14: KILL(pid, signal) does what send_signal(pid, signal) does: signal 19
\* suspends the process, 18 resumes it, 9 terminates it, any other signal
\* changes nothing; only signal 9 sets the termination flag
C14_KillIsSendSignal ==
    [][\A t \in Threads, pid \in Pids, signal \in Signals :
          (sys_kill(t, pid, signal) /\ KnownPid(pid)) =>
             /\ pcbs'[pid_map[pid]].state = SignalledState(pid, signal)
             /\ pcbs'[pid_map[pid]].should_terminate =
                   (signal = 9 \/ pcbs[pid_map[pid]].should_terminate)
             /\ (signal # 9) => tpc'[t] = "idle"]_vars

\* C16: a block leaves process_table, by terminate_process or by shutdown,
\* only after its execution unit has stopped and been joined and its
\* memory has been released
C16_RemovedAfterStopJoinRelease ==
    \A r \in removed : r.stopped /\ r.joined /\ r.released

\* C20: once terminate_process has set the termination flag, the execution
\* unit sees it at its next poll and stops, so that the call returns,
\* whatever the state of the process was
C20_TerminateReturns ==
    \A t \in Threads : (tpc[t] = "terminate_process") ~> (tpc[t] = "idle")

\* the flag is set while the unit is in its loop, having done a round
C20_FlagSetInLoop ==
    \E t \in Threads :
       /\ tpc[t] = "terminate_process"
       /\ pcbs[pid_map[tloc[t].pid]].unit = "loop"
       /\ pcbs[pid_map[tloc[t].pid]].cpu_time = 1
       /\ pcbs[pid_map[tloc[t].pid]].should_terminate

\* ------------------------------------------------------------------------
\* Claims about concurrent calls, ownership and the page mapper
\* ------------------------------------------------------------------------

\* C21: allocate_virtual_page calls running at the same time on different
\* threads never return the same virtual address and never write the same
\* page-table slot: the address a call returns has not been returned
\* before, and the slot it writes is not in use
C21_DistinctVirtualPages ==
    [][\A t \in Threads :
          virtual_page_map(t) =>
             /\ tloc[t].virtual_addr \notin virt_live
             /\ virtual_to_physical(page_table, tloc[t].virtual_addr) = 0]_vars

\* C22: schedule() uses the process table and current_process only while it
\* holds process_mutex: between its selection of the next block and its
\* context switch no other thread is inside a call and none takes a step of
\* create_process, terminate_process, suspend_process or resume_process
C22_ScheduleHoldsLock ==
    [][sched_pc = "context_switch" =>
          /\ process_mutex = NoThread
          /\ UNCHANGED <<tpc, proc_calls, process_table, pid_map>>]_vars

\* C25: schedule() never changes the state of a block that is BLOCKED, also
\* when that block is the current process and another block is selected
C25_ScheduleKeepsBlocked ==
    [][(schedule_select \/ schedule_switch) =>
          \A slot \in Slots :
             pcbs[slot].state = "BLOCKED" => pcbs'[slot].state = "BLOCKED"]_vars

\* a step of the execution unit of the block at slot
UnitStep(slot) ==
    \/ unit_start(slot)
    \/ \E completed \in BOOLEAN : unit_loop(slot, completed)
    \/ unit_exit(slot)

\* C29: the execution unit of a block writes no field of it except state,
\* and state only to record its completion (TERMINATED): it never sets
\* RUNNING and never changes cpu_time or priority
C29_UnitWritesCompletionOnly ==
    [][\A slot \in Slots :
          UnitStep(slot) =>
             /\ pcbs'[slot].state \in {pcbs[slot].state, "TERMINATED"}
             /\ pcbs'[slot].cpu_time = pcbs[slot].cpu_time
             /\ pcbs'[slot].priority = pcbs[slot].priority
             /\ pcbs'[slot].should_terminate = pcbs[slot].should_terminate
             /\ pcbs'[slot].memory_base = pcbs[slot].memory_base]_vars

\* the allocated blocks of the MemoryManager that process pid owns
OwnedBlocks(blocks, pid) ==
    {i \in 1..Len(blocks) : blocks[i].process_id = pid /\ ~ blocks[i].is_free}

\* C24: a successful create_process takes the memory of the process from
\* the MemoryManager (its used memory grows, a block is owned by the new
\* pid) and terminate_process gives it back; when the allocation fails
\* create_process returns -1 and adds nothing to process_table and pid_map
C24_QuotaFromAllocator ==
    [][\A t \in Threads :
          /\ \A slot \in Slots :
                /\ create_process_finish(t, slot, TRUE) =>
                      /\ SumFree(memory_blocks') < SumFree(memory_blocks)
                      /\ OwnedBlocks(memory_blocks', tloc[t].pid) # {}
                /\ create_process_finish(t, slot, FALSE) =>
                      /\ proc_ret' = -1
                      /\ UNCHANGED <<process_table, pid_map>>
          /\ terminate_process_join(t) =>
                OwnedBlocks(memory_blocks', tloc[t].pid) = {}]_vars

\* the addresses of the allocated blocks
UsedAddresses(blocks) ==
    {blocks[i].address : i \in {j \in 1..Len(blocks) : ~ blocks[j].is_free}}

\* C23: in every state reached by allocate, allocate_for_process,
\* deallocate and deallocate_process_memory the keys of allocated_blocks are
\* exactly the addresses of the blocks that are not free, and each record's
\* size is the size of its block
C23_RecordsMatchBlocks ==
    /\ DOMAIN allocated_blocks = UsedAddresses(memory_blocks)
    /\ \A i \in 1..Len(memory_blocks) :
          ~ memory_blocks[i].is_free =>
             allocated_blocks[memory_blocks[i].address] = memory_blocks[i].size

\* the blocks of a list, as a set
BlockSet(blocks) == {blocks[i] : i \in 1..Len(blocks)}

\* the allocated blocks an owner holds; -1 is the mark of a block without
\* owner and names no owner
HeldBlocks(blocks, owner) ==
    IF owner = -1 THEN {}
    ELSE {b \in BlockSet(blocks) : b.process_id = owner /\ ~ b.is_free}

\* the range of block `b` lies inside a free block without owner of `blocks`
ReleasedIn(blocks, b) ==
    \E f \in BlockSet(blocks) :
       /\ f.is_free
       /\ f.process_id = -1
       /\ f.address <= b.address
       /\ b.address + b.size <= f.address + f.size

\* C26: deallocate_process_memory(owner) marks free every block the owner
\* holds, clears its owner and coalesces, leaving the other allocated
\* blocks as they are; when the owner holds no block the blocks are
\* unchanged
C26_ReleaseOwnedBlocksOnly ==
    [][(/\ mem_calls' = mem_calls + 1
        /\ mem_last'.op = "deallocate_process_memory")
       => LET held == HeldBlocks(memory_blocks, mem_last'.a1) IN
          /\ \A b \in held : ReleasedIn(memory_blocks', b)
          /\ \A b \in BlockSet(memory_blocks) \ held :
                ~ b.is_free => b \in BlockSet(memory_blocks')
          /\ held = {} => BlockSet(memory_blocks') = BlockSet(memory_blocks)
          /\ \A f, g \in BlockSet(memory_blocks') :
                (f.is_free /\ g.is_free) => f.address + f.size # g.address]_mem_vars

\* the layout of a block list: base addresses, sizes and free flags
Layout(blocks) ==
    {[address |-> b.address, size |-> b.size, is_free |-> b.is_free]
     : b \in BlockSet(blocks)}

\* C27: two MemoryManagers whose block lists hold the same blocks (base
\* addresses, sizes, free flags), reached through different histories of
\* allocate and deallocate calls, return the same address for allocate(n)
C27_SameLayoutSameAddress ==
    Layout(memory_blocks) = Layout(twin.blocks) =>
       \A n \in TwinSizes :
          allocate_on(MemState, n, "landed").ptr = allocate_on(twin, n, "landed").ptr

\* the virtual addresses handed out so far, freed since or not
ReturnedPages == virt_live \cup virt_freed

\* C28: on one thread, the k-th successful allocate_virtual_page returns
\* 0x1000000 + (k-1) * PAGE_SIZE, which is above every address returned
\* before it, so no address comes back, not even one that free_virtual_page
\* has released in between.
C28_VirtualPagesAscend ==
    [][(mem_last'.op = "allocate_virtual_page" /\ mem_last'.ret # NULL) =>
          /\ mem_last'.ret = VIRTUAL_BASE + PAGE_SIZE * Cardinality(ReturnedPages)
          /\ \A page \in ReturnedPages : mem_last'.ret >= page + PAGE_SIZE
          /\ mem_last'.ret \notin ReturnedPages]_vars

\* the second page is handed out after the first one has been freed
C28_PageAfterFree ==
    /\ mem_last.op = "allocate_virtual_page"
    /\ mem_last.ret = VIRTUAL_BASE + PAGE_SIZE
    /\ VIRTUAL_BASE \in virt_freed

\* the table has an entry for the page of this address
InTable(virtual_addr) ==
    /\ virtual_addr >= VIRTUAL_BASE
    /\ virtual_addr < VIRTUAL_BASE + PAGE_SIZE * Len(page_table)

SamePage(v, w) == v \div PAGE_SIZE = w \div PAGE_SIZE

\* C30: virtual_to_physical(v) directly after a map_page(vaddr, paddr) whose
\* page has an entry in the table, with v in the page of vaddr, returns the
\* page of paddr plus the offset of v in its page; map_page for a page
\* without an entry returns false, unmap_page for such a page returns, and
\* neither changes the page table.
C30_MapThenTranslate ==
    [][/\ (/\ mem_last.op = "map_page" /\ InTable(mem_last.a1)
           /\ mem_last'.op = "virtual_to_physical"
           /\ SamePage(mem_last'.a1, mem_last.a1))
          => mem_last'.ret = (mem_last.a2 \div PAGE_SIZE) * PAGE_SIZE
                               + (mem_last'.a1 % PAGE_SIZE)
       /\ (mem_last'.op = "map_page" /\ InTable(mem_last'.a1)) => mem_last'.ret = 1
       /\ (mem_last'.op = "map_page" /\ ~InTable(mem_last'.a1))
          => mem_last'.ret = 0 /\ page_table' = page_table
       /\ (mem_last'.op = "unmap_page" /\ ~InTable(mem_last'.a1))
          => page_table' = page_table]_vars

\* the last byte of the second page is looked up while the page is mapped to
\* an address of the pool that is not page aligned
C30_TranslatedAfterMap ==
    /\ mem_last.op = "virtual_to_physical"
    /\ mem_last.a1 = VIRTUAL_BASE + PAGE_SIZE + PAGE_SIZE - 1
    /\ page_table[2].present
    /\ mem_last.ret = ((memory_pool + PAGE_SIZE + ALLOC_ALIGN) \div PAGE_SIZE) * PAGE_SIZE
                         + PAGE_SIZE - 1

\* ========================================================================
\* Claims about rejected arguments, startup, and the remaining invariants
\* ========================================================================

PowerOfTwo(n) == \E k \in 0..(SIZE_T_BITS - 1) : n = 2 ^ k

\* the call that has just returned was handed an invalid argument
RejectedArgument(call) ==
    \/ call.op = "allocate" /\ call.a1 = 0
    \/ call.op = "allocate_aligned" /\ ~PowerOfTwo(call.a2)

\* C31: allocate(0), and allocate_aligned with an alignment that is 0 or
\* not a power of two, return null and leave the block list, the map of
\* allocation records and the page table as they were.
C31_InvalidArgumentChangesNothing ==
    [][RejectedArgument(mem_last') =>
          /\ mem_last'.ret = NULL
          /\ memory_blocks' = memory_blocks
          /\ allocated_blocks' = allocated_blocks
          /\ page_table' = page_table]_vars

\* allocate_aligned with alignment 24 has been turned away while a block is
\* allocated
C31_RejectedWhileInUse ==
    /\ mem_last.op = "allocate_aligned"
    /\ mem_last.a2 = 24
    /\ mem_last.ret = NULL
    /\ allocated_blocks # NoRecords

\* the first n components, in the order of initialize()
FirstComponents(n) == [i \in 1..n |-> Components[i]]

\* C32: initialize() reaches the memory manager, the process manager, the
\* drivers and the filesystem, and the GUI manager in this order, each only
\* after the one before it has reported success; once a component has
\* failed, initialize() has returned false, no further component is reached
\* and running is false; running is set only when every component is up.
C32_StartupInOrderOrAbort ==
    [][/\ kernel'.started = FirstComponents(Len(kernel'.started))
       /\ \A i \in 1..(Len(kernel'.started) - 1) : kernel'.started[i] \in kernel'.up
       /\ kernel'.up \subseteq {kernel'.started[i] : i \in 1..Len(kernel'.started)}
       /\ kernel'.running => kernel'.up = {Components[i] : i \in 1..Len(Components)}
       /\ kernel'.ret = "false" => ~kernel'.running
       /\ kernel.ret = "false" =>
             /\ kernel'.started = kernel.started
             /\ kernel'.up = kernel.up
             /\ ~kernel'.running]_vars

\* initialize() has returned false because the keyboard driver failed
C32_AbortedAtKeyboard ==
    /\ kernel.ret = "false"
    /\ kernel.started = FirstComponents(4)
    /\ kernel.up = {"memory_manager", "process_manager", "display_driver"}
    /\ ~kernel.running

\* C33: no two free blocks are adjacent in address order, the end of one
\* being the base of the other, in any state allocate, allocate_for_process,
\* deallocate and deallocate_process_memory reach.
C33_NoAdjacentFreeBlocks ==
    \A i, j \in 1..Len(memory_blocks) :
        (i # j /\ memory_blocks[i].is_free /\ memory_blocks[j].is_free) =>
            memory_blocks[i].address + memory_blocks[i].size # memory_blocks[j].address

\* C34: current_process is null, or points to a block that is still in
\* process_table, in every state; after terminate_process(pid) of the
\* current process no schedule() works on the deleted block.
C34_CurrentProcessInTable ==
    current_process = NoSlot \/ current_process \in TableSlots(process_table)

\* C35: when a schedule() call has just returned with a RUNNING current
\* block, no READY block of the table has a priority above the priority of
\* the current block.
C35_NoLowerPriorityPreemption ==
    [][(/\ ScheduleReturns
        /\ current_process' \in TableSlots(process_table')
        /\ pcbs'[current_process'].state = "RUNNING")
       => \A s \in TableSlots(process_table') :
             pcbs'[s].state = "READY"
                => pcbs'[s].priority <= pcbs'[current_process'].priority]_vars

\* C36: allocate(size) with size >= 1 returns a block only when a free
\* block of at least size bytes exists, the rounded size never being smaller
\* than size, and no block of size 0 is ever in the list.
C36_NoWrapAround ==
    [][/\ (mem_last'.op = "allocate" /\ mem_last'.a1 >= 1 /\ mem_last'.ret # NULL)
          => \E i \in 1..Len(memory_blocks) :
                memory_blocks[i].is_free /\ memory_blocks[i].size >= mem_last'.a1
       /\ \A i \in 1..Len(memory_blocks') : memory_blocks'[i].size # 0]_vars

\* allocate_for_process stamped block b with owner p: only the ids it is
\* called with are stamps, -1 being the mark every other block carries
StampedWith(b, p) == p \in OwnerIds /\ b.process_id = p

\* C37: deallocate_process_memory(p), for every p and for -1 too, leaves
\* allocated, at its address and with its size, every allocated block that
\* allocate_for_process has not stamped with p.
C37_UnstampedBlocksStay ==
    [][(/\ mem_calls' = mem_calls + 1
        /\ mem_last'.op = "deallocate_process_memory")
       => \A i \in 1..Len(memory_blocks) :
             (~ memory_blocks[i].is_free
              /\ ~ StampedWith(memory_blocks[i], mem_last'.a1))
             => \E j \in 1..Len(memory_blocks') :
                   /\ memory_blocks'[j].address = memory_blocks[i].address
                   /\ memory_blocks'[j].size = memory_blocks[i].size
                   /\ ~ memory_blocks'[j].is_free]_mem_vars

\* the bytes [from, from + size) and the block b have a byte in common
SpanMeets(from, size, b) ==
    from < b.address + b.size /\ b.address < from + size

\* C38: after a successful allocate_aligned(size, alignment) that returns r,
\* the bytes [r, r + size) lie inside the one allocated block this call has
\* reserved and meet no other block of the list.
C38_AlignedSpanInsideBlock ==
    [][(/\ mem_calls' = mem_calls + 1
        /\ mem_last'.op = "allocate_aligned"
        /\ mem_last'.ret # NULL)
       => \E i \in 1..Len(memory_blocks') :
             LET b == memory_blocks'[i] IN
             /\ ~ b.is_free
             /\ b.address \in DOMAIN allocated_blocks' \ DOMAIN allocated_blocks
             /\ b.address <= mem_last'.ret
             /\ mem_last'.ret + mem_last'.a1 <= b.address + b.size
             /\ \A j \in 1..Len(memory_blocks') :
                   j # i => ~ SpanMeets(mem_last'.ret, mem_last'.a1,
                                        memory_blocks'[j])]_mem_vars

\* thread t has found the execution unit of a block joinable and is in, or
\* on its way into, the join() of that unit
Joining(t) ==
    IF JoinTarget(t) # NoSlot /\ ~ pcbs[JoinTarget(t)].joined
    THEN JoinTarget(t) ELSE NoSlot

\* C39: at no time are two threads in the join of the same execution unit,
\* however wait_for_process, terminate_process and shutdown interleave.
C39_OneJoinerPerUnit ==
    \A t, u \in Threads :
        (t # u /\ Joining(t) # NoSlot) => Joining(u) # Joining(t)

\* C40: a call of print_memory_map returns: the thread that has taken
\* memory_mutex at its start gets to the end of the call.
C40_PrintMemoryMapReturns ==
    \A t \in Threads : (tpc[t] = "print_memory_map") ~> (tpc[t] = "idle")

====
